---- MODULE Spec2Model ----
(***************************************************************************)
(* StyleAI: body-shape classification (style_engine/recommendation_engine) *)
(* and the landmark -> ratios -> measurements pipeline                     *)
(* (body_measurement/body_scanner).                                        *)
(*                                                                         *)
(* Numbers.  The Python code computes on floats.  The model computes the   *)
(* same expressions exactly, in the field Q(sqrt r): a number is a record  *)
(* [a, b, d, r] that stands for (a + b*sqrt(r)) / d, with d > 0, r         *)
(* square-free, gcd(a, b, d) = 1, and b = 0 <=> r = 1.  Distances between  *)
(* integer pixel points are square roots of integers, so every value the   *)
(* pipeline produces is represented without rounding.  IEEE-754 rounding   *)
(* (one unit in the last place) is not modelled.                           *)
(***************************************************************************)
EXTENDS Integers, Sequences, FiniteSets, TLC

----------------------------------------------------------------------------
(* Exact arithmetic *)

IAbs(n) == IF n < 0 THEN -n ELSE n

ISign(n) == IF n < 0 THEN -1 ELSE IF n > 0 THEN 1 ELSE 0

RECURSIVE Gcd(_, _)
Gcd(m, n) == IF n = 0 THEN m ELSE Gcd(n, m % n)

\* the largest k with k*k dividing n (n >= 1)
SquarePart(n) ==
    LET S == {k \in 1..n : k * k <= n /\ n % (k * k) = 0}
    IN  CHOOSE k \in S : \A j \in S : j <= k

\* (a + b*sqrt(r)) / d in normal form
Mk(a, b, d, r) ==
    LET k  == IF b = 0 THEN 1 ELSE SquarePart(r)
        r1 == IF b = 0 THEN 1 ELSE r \div (k * k)
        a2 == IF r1 = 1 THEN a + b * k ELSE a
        b2 == IF r1 = 1 THEN 0 ELSE b * k
        s  == IF d < 0 THEN -1 ELSE 1
        g  == Gcd(Gcd(IAbs(a2), IAbs(b2)), IAbs(d))
    IN  [a |-> (s * a2) \div g, b |-> (s * b2) \div g,
         d |-> (s * d) \div g, r |-> IF b2 = 0 THEN 1 ELSE r1]

Rat(n) == Mk(n, 0, 1, 1)

Frac(n, d) == Mk(n, 0, d, 1)

\* the radicand two operands share (one of them may be rational)
Radicand(x, y) == IF x.b # 0 THEN x.r ELSE y.r

Add(x, y) ==
    Mk(x.a * y.d + y.a * x.d, x.b * y.d + y.b * x.d, x.d * y.d, Radicand(x, y))

Neg(x) == [a |-> -x.a, b |-> -x.b, d |-> x.d, r |-> x.r]

Sub(x, y) == Add(x, Neg(y))

Mul(x, y) ==
    IF x.b # 0 /\ y.b # 0 /\ x.r # y.r
    THEN \* two surds of different radicands: both are pure in this program
         IF x.a = 0 /\ y.a = 0
         THEN Mk(0, x.b * y.b, x.d * y.d, x.r * y.r)
         ELSE [unsupported |-> TRUE]
    ELSE LET r == Radicand(x, y)
         IN  Mk(x.a * y.a + x.b * y.b * r, x.a * y.b + x.b * y.a, x.d * y.d, r)

\* 1 / x, for x # 0
Inv(x) == Mk(x.d * x.a, -(x.d * x.b), x.a * x.a - x.b * x.b * x.r, x.r)

IsZero(x) == x.a = 0 /\ x.b = 0

\* x / y, for y # 0 (Python raises ZeroDivisionError on y = 0: the callers
\* test IsZero(y) first)
Div(x, y) == Mul(x, Inv(y))

Sign(x) ==
    LET sa == ISign(x.a)
        sb == ISign(x.b)
    IN  IF sb = 0 THEN sa
        ELSE IF sa = 0 \/ sa = sb THEN sb
        ELSE IF x.a * x.a > x.b * x.b * x.r THEN sa ELSE sb

Lt(x, y) == Sign(Sub(x, y)) < 0

Le(x, y) == Sign(Sub(x, y)) <= 0

Gt(x, y) == Sign(Sub(x, y)) > 0

Ge(x, y) == Sign(Sub(x, y)) >= 0

NumEq(x, y) == Sign(Sub(x, y)) = 0

NumAbs(x) == IF Sign(x) < 0 THEN Neg(x) ELSE x

\* Python's max(x, y): y if y > x, else x
NumMax(x, y) == IF Gt(y, x) THEN y ELSE x

\* math.sqrt(n) for an integer n >= 0
Sqrt(n) == IF n = 0 THEN Rat(0) ELSE Mk(0, 1, 1, n)

----------------------------------------------------------------------------
(* recommendation_engine.py: BodyType, BodyMeasurements, determine_body_shape *)

\* Python values other than numbers are records, so that any two compare
None == [none |-> TRUE]

\* the exception a Python division by zero raises
ZeroDivisionError == [exception |-> "ZeroDivisionError"]

\* landmarks[i] with i >= len(landmarks)
IndexError == [exception |-> "IndexError"]

\* a value that stands for a raised exception
IsException(v) == "exception" \in DOMAIN v

TRIANGLE == [enum |-> "BodyType", value |-> "triangle"]

HOURGLASS == [enum |-> "BodyType", value |-> "hourglass"]

RECTANGLE == [enum |-> "BodyType", value |-> "rectangle"]

INVERTED_TRIANGLE == [enum |-> "BodyType", value |-> "inverted_triangle"]

BodyType == {TRIANGLE, HOURGLASS, RECTANGLE, INVERTED_TRIANGLE}

BodyMeasurements(shoulders, bust, waist, hips) ==
    [shoulders |-> shoulders, bust |-> bust, waist |-> waist, hips |-> hips]

\* line 89: waist / shoulders if shoulders > 0 else 1
waist_to_shoulders_ratio(m) ==
    IF Gt(m.shoulders, Rat(0)) THEN Div(m.waist, m.shoulders) ELSE Rat(1)

\* line 90: waist / hips if hips > 0 else 1
waist_to_hips_ratio(m) ==
    IF Gt(m.hips, Rat(0)) THEN Div(m.waist, m.hips) ELSE Rat(1)

\* line 91: hips / shoulders if shoulders > 0 else 1
hips_to_shoulders_ratio(m) ==
    IF Gt(m.shoulders, Rat(0)) THEN Div(m.hips, m.shoulders) ELSE Rat(1)

\* line 94: abs(shoulders - hips) / max(shoulders, hips) * 100; the division
\* is not guarded
shoulder_hip_diff_raises(m) == IsZero(NumMax(m.shoulders, m.hips))

\* the difference in inches, not in percent of the larger
shoulder_hip_diff_in_inches(m) == NumAbs(Sub(m.shoulders, m.hips))

shoulder_hip_diff(m) ==
    Mul(Div(NumAbs(Sub(m.shoulders, m.hips)), NumMax(m.shoulders, m.hips)),
        Rat(100))

\* line 95
waist_reduction_shoulders(m) ==
    Mul(Sub(Rat(1), waist_to_shoulders_ratio(m)), Rat(100))

\* line 96
waist_reduction_hips(m) == Mul(Sub(Rat(1), waist_to_hips_ratio(m)), Rat(100))

\* line 97
hips_larger_than_shoulders(m) ==
    Mul(Sub(hips_to_shoulders_ratio(m), Rat(1)), Rat(100))

\* lines 100-102: `and` evaluates its third operand, with the unguarded
\* division by max(shoulders, bust), only when the first two hold
rectangle_rule_raises(m) ==
    /\ Lt(waist_reduction_shoulders(m), Rat(25))
    /\ Le(shoulder_hip_diff(m), Rat(5))
    /\ IsZero(NumMax(m.shoulders, m.bust))

rectangle_rule(m) ==
    /\ Lt(waist_reduction_shoulders(m), Rat(25))
    /\ Le(shoulder_hip_diff(m), Rat(5))
    /\ Le(Mul(Div(NumAbs(Sub(m.shoulders, m.bust)),
                  NumMax(m.shoulders, m.bust)), Rat(100)), Rat(5))

\* > in place of >=
hourglass_rule_strict(m) ==
    /\ Gt(waist_reduction_shoulders(m), Rat(25))
    /\ Gt(waist_reduction_hips(m), Rat(25))
    /\ Le(shoulder_hip_diff(m), Rat(5))

\* lines 106-108
hourglass_rule(m) ==
    /\ Ge(waist_reduction_shoulders(m), Rat(25))
    /\ Ge(waist_reduction_hips(m), Rat(25))
    /\ Le(shoulder_hip_diff(m), Rat(5))

\* the ratio taken the wrong way round: shoulders / hips
triangle_rule_inverted_ratio(m) ==
    Ge(Mul(Sub(IF Gt(m.hips, Rat(0)) THEN Div(m.shoulders, m.hips) ELSE Rat(1),
               Rat(1)), Rat(100)), Rat(5))

\* a threshold of 10%
triangle_rule_ten_percent(m) == Ge(hips_larger_than_shoulders(m), Rat(10))

\* line 112
triangle_rule(m) == Ge(hips_larger_than_shoulders(m), Rat(5))

\* line 116: shoulders > hips and (shoulders - hips) / hips * 100 >= 5; the
\* division by hips is not guarded
inverted_triangle_rule_raises(m) ==
    Gt(m.shoulders, m.hips) /\ IsZero(m.hips)

inverted_triangle_rule(m) ==
    /\ Gt(m.shoulders, m.hips)
    /\ Ge(Mul(Div(Sub(m.shoulders, m.hips), m.hips), Rat(100)), Rat(5))

\* no final return: Python returns None
default_shape_missing == None

\* lines 119-120: return BodyType.RECTANGLE
default_shape == RECTANGLE

\* lines 73-120, in the order Python evaluates them
determine_body_shape(measurements) ==
    IF shoulder_hip_diff_raises(measurements) THEN ZeroDivisionError
    ELSE IF rectangle_rule_raises(measurements) THEN ZeroDivisionError
    ELSE IF rectangle_rule(measurements) THEN RECTANGLE
    ELSE IF hourglass_rule(measurements) THEN HOURGLASS
    ELSE IF triangle_rule(measurements) THEN TRIANGLE
    ELSE IF inverted_triangle_rule_raises(measurements) THEN ZeroDivisionError
    ELSE IF inverted_triangle_rule(measurements) THEN INVERTED_TRIANGLE
    ELSE default_shape

----------------------------------------------------------------------------
(* body_scanner.py: BodyLandmarks, BodyRatios, BodyScanner *)

FRONT == [enum |-> "PhotoAngle", value |-> "front"]

SIDE == [enum |-> "PhotoAngle", value |-> "side"]

BACK == [enum |-> "PhotoAngle", value |-> "back"]

PhotoAngle == {FRONT, SIDE, BACK}

\* `landmarks` is the Python list: a function on 0 .. len - 1 of points <<x, y>>
BodyLandmarks(angle, landmarks, image_width, image_height, confidence) ==
    [angle |-> angle, landmarks |-> landmarks, image_width |-> image_width,
     image_height |-> image_height, confidence |-> confidence]

BodyRatios(s2h, w2h, w2s, sw, ww, hw) ==
    [shoulder_to_hip_ratio |-> s2h, waist_to_hip_ratio |-> w2h,
     waist_to_shoulder_ratio |-> w2s, shoulder_width_pixels |-> sw,
     waist_width_pixels |-> ww, hip_width_pixels |-> hw]

BodyRatiosFields ==
    {"shoulder_to_hip_ratio", "waist_to_hip_ratio", "waist_to_shoulder_ratio",
     "shoulder_width_pixels", "waist_width_pixels", "hip_width_pixels"}

\* len(landmarks)
LandmarkCount(landmarks) == Cardinality(DOMAIN landmarks)

\* the y difference left out
calculate_distance_x_only(point1, point2) ==
    Sqrt((point2[1] - point1[1]) * (point2[1] - point1[1]))

\* lines 154-156: math.sqrt((x2 - x1)**2 + (y2 - y1)**2)
calculate_distance(point1, point2) ==
    Sqrt((point2[1] - point1[1]) * (point2[1] - point1[1])
         + (point2[2] - point1[2]) * (point2[2] - point1[2]))

\* another coefficient of the 0.7 - 0.8 range the comments name: 0.8
estimate_waist_width_wider(front_landmarks) ==
    Mul(calculate_distance(front_landmarks.landmarks[11],
                           front_landmarks.landmarks[12]), Frac(4, 5))

\* lines 158-179.  shoulder_y, hip_y and waist_y are computed and not used.
estimate_waist_width(front_landmarks) ==
    LET landmarks == front_landmarks.landmarks
        shoulder_y == Frac(landmarks[11][2] + landmarks[12][2], 2)
        hip_y == Frac(landmarks[23][2] + landmarks[24][2], 2)
        waist_y == Add(shoulder_y, Mul(Frac(3, 5), Sub(hip_y, shoulder_y)))
        shoulder_width == calculate_distance(landmarks[11], landmarks[12])
        estimated_waist_width == Mul(shoulder_width, Frac(3, 4))
    IN  estimated_waist_width

\* the bound one too low
too_few_landmarks_off_by_one(landmarks) == LandmarkCount(landmarks) < 24

\* line 119: if len(front_landmarks.landmarks) < 25: return None
too_few_landmarks(landmarks) == LandmarkCount(landmarks) < 25

\* lines 104-152
calculate_body_ratios(front_landmarks) ==
    IF too_few_landmarks(front_landmarks.landmarks) THEN None
    ELSE IF ~({11, 12, 23, 24} \subseteq DOMAIN front_landmarks.landmarks)
    THEN IndexError
    ELSE
    LET landmarks == front_landmarks.landmarks
        left_shoulder == landmarks[11]
        right_shoulder == landmarks[12]
        left_hip == landmarks[23]
        right_hip == landmarks[24]
        shoulder_width == calculate_distance(left_shoulder, right_shoulder)
        hip_width == calculate_distance(left_hip, right_hip)
        waist_width == estimate_waist_width(front_landmarks)
        shoulder_to_hip_ratio ==
            IF Gt(hip_width, Rat(0)) THEN Div(shoulder_width, hip_width)
            ELSE Rat(1)
        waist_to_hip_ratio ==
            IF Gt(hip_width, Rat(0)) THEN Div(waist_width, hip_width)
            ELSE Rat(1)
        waist_to_shoulder_ratio ==
            IF Gt(shoulder_width, Rat(0)) THEN Div(waist_width, shoulder_width)
            ELSE Rat(1)
    IN  BodyRatios(shoulder_to_hip_ratio, waist_to_hip_ratio,
                   waist_to_shoulder_ratio, shoulder_width, waist_width,
                   hip_width)

\* line 181: reference_measurement: float = 36.0
default_reference_measurement == Rat(36)

\* the hips as the shoulders times the ratio
convert_ratios_to_measurements_hips_multiplied(ratios, reference_measurement) ==
    LET shoulders == IF reference_measurement = None
                     THEN Rat(36)
                     ELSE reference_measurement
    IN  BodyMeasurements(shoulders, shoulders,
                         Mul(shoulders, ratios.waist_to_shoulder_ratio),
                         Mul(shoulders, ratios.shoulder_to_hip_ratio))

\* lines 181-205; reference_measurement = None stands for a call that does
\* not pass it.  shoulders / ratios.shoulder_to_hip_ratio is not guarded.
convert_ratios_to_measurements(ratios, reference_measurement) ==
    LET shoulders == IF reference_measurement = None
                     THEN default_reference_measurement
                     ELSE reference_measurement
    IN  IF IsZero(ratios.shoulder_to_hip_ratio) THEN ZeroDivisionError
        ELSE LET hips == Div(shoulders, ratios.shoulder_to_hip_ratio)
                 waist == Mul(shoulders, ratios.waist_to_shoulder_ratio)
                 bust == shoulders
             IN  BodyMeasurements(shoulders, bust, waist, hips)

\* int(x) of a rational x: truncation towards zero
py_int(x) ==
    IF x.a >= 0 THEN x.a \div x.d ELSE -((-x.a) \div x.d)

RECURSIVE sum_visibility(_, _, _)
\* the sum of lm.visibility over the landmarks lo .. hi of the pose, added
\* pairwise
sum_visibility(pose_landmarks, lo, hi) ==
    IF lo > hi THEN Rat(0)
    ELSE IF lo = hi THEN pose_landmarks[lo].visibility
    ELSE LET mid == (lo + hi) \div 2
         IN  Add(sum_visibility(pose_landmarks, lo, mid),
                 sum_visibility(pose_landmarks, mid + 1, hi))

\* lines 58-102.  `files` is the file system: image_path -> None for a file
\* cv2 cannot load, else [shape |-> <<height, width>>, pose_landmarks |-> the
\* detector's pose with its normalised `landmark` list, or None for no pose]
analyze_photo(files, image_path, angle) ==
    LET image == IF image_path \in DOMAIN files THEN files[image_path]
                 ELSE None
    IN  IF image = None THEN None
        ELSE IF image.pose_landmarks = None THEN None
        ELSE
        LET pose == image.pose_landmarks.landmark
            landmarks ==
                [i \in DOMAIN pose |->
                    <<py_int(Mul(pose[i].x, Rat(image.shape[2]))),
                      py_int(Mul(pose[i].y, Rat(image.shape[1])))>>]
            confidence ==
                Div(sum_visibility(pose, 0, LandmarkCount(pose) - 1),
                    Rat(LandmarkCount(pose)))
        IN  BodyLandmarks(angle, landmarks, image.shape[2], image.shape[1],
                          confidence)

\* lines 217-225: the results dict of a call.  A message is the sequence of
\* the pieces of its f-string
initial_results ==
    [success |-> FALSE, landmarks |-> <<>>, ratios |-> None,
     measurements |-> None, body_shape |-> None, confidence |-> Rat(0),
     errors |-> <<>>]

\* the view that failed replaces the front view's landmarks
store_landmarks_under_front(results, angle, landmarks) ==
    [results EXCEPT !.landmarks = (FRONT :> landmarks) @@ @]

\* line 232: results["landmarks"][angle] = landmarks
store_landmarks(results, angle, landmarks) ==
    [results EXCEPT !.landmarks = (angle :> landmarks) @@ @]

RECURSIVE analyze_photos(_, _, _)
\* lines 228-235: the loop over photo_paths.items(), a sequence of
\* <<angle, path>> in the dict's order
analyze_photos(results, files, items) ==
    IF items = <<>> THEN results
    ELSE
    LET angle == Head(items)[1]
        path == Head(items)[2]
        landmarks == analyze_photo(files, path, angle)
    IN  analyze_photos(
            IF landmarks # None
            THEN store_landmarks(results, angle, landmarks)
            ELSE [results EXCEPT !.errors =
                     Append(@, <<"Failed to analyze ", angle.value,
                                 " view from ", path>>)],
            files, Tail(items))

\* line 238: if PhotoAngle.FRONT not in results["landmarks"]
front_view_missing(results) == FRONT \notin DOMAIN results.landmarks

\* the result returned as it is
front_view_required_silent(results) == results

\* lines 239-240
front_view_required(results) ==
    [results EXCEPT !.errors =
        Append(@, <<"Front view is required for body shape analysis">>)]

\* lines 246-248
ratios_failed(results) ==
    [results EXCEPT !.errors =
        Append(@, <<"Failed to calculate body ratios">>)]

\* lines 250-251
ratios_stored(results, ratios, front_landmarks) ==
    [results EXCEPT !.ratios = ratios,
                    !.confidence = front_landmarks.confidence]

\* line 246: if not ratios
ratios_unavailable(ratios) == ratios = None

\* lines 207-262, a call as a whole: the results dict returned, or the
\* exception that leaves the call
analyze_body_shape_from_photos(files, photo_paths, reference_measurement) ==
    LET results == analyze_photos(initial_results, files, photo_paths)
    IN  IF front_view_missing(results) THEN front_view_required(results)
        ELSE
        LET front_landmarks == results.landmarks[FRONT]
            ratios == calculate_body_ratios(front_landmarks)
        IN  IF IsException(ratios) THEN ratios
            ELSE IF ratios_unavailable(ratios) THEN ratios_failed(results)
            ELSE
            LET measurements ==
                    convert_ratios_to_measurements(ratios,
                                                   reference_measurement)
            IN  IF IsException(measurements) THEN measurements
                ELSE
                LET body_shape == determine_body_shape(measurements)
                IN  IF IsException(body_shape) THEN body_shape
                    ELSE [ratios_stored(results, ratios, front_landmarks)
                             EXCEPT !.measurements = measurements,
                                    !.body_shape = body_shape,
                                    !.success = TRUE]

----------------------------------------------------------------------------
(* recommendation_engine.py: the knowledge base STYLING_RULES. A dict is a  *)
(* function on its keys, a list is a sequence                               *)

rectangle_rules ==
    [description |->
        "Straight silhouette with similar bust and hip measurements",
     goals |->
        <<"Create curves", "Define waist",
          "Add volume to upper and lower body">>,
     tops |->
        [best |->
            <<"tank tops", "wrap tops", "cowl camisole", "belted tops",
              "button-downs">>,
         necklines |->
            <<"scoop", "v-neck", "bateau", "off-shoulder", "sweetheart",
              "halter", "turtleneck", "crew", "cowl">>,
         avoid |->
            <<"shapeless oversized pieces", "cropped tops at waist">>],
     bottoms |->
        [pants |->
            <<"cargo pants", "harem pants", "wide leg", "bootcut",
              "turn-up">>,
         jeans |->
            <<"slim", "straight", "bootcut", "wide leg", "trouser style">>,
         skirts |->
            <<"circle", "a-line", "bubble", "layered", "pencil",
              "pleated", "paneled", "trumpet", "straight",
              "gathered waist">>,
         shorts |->
            <<"bubble", "flared", "belted", "patterned", "loose",
              "turn-up", "paperbag waist">>],
     dresses |->
        <<"wrap", "x-line", "shift", "empire", "princess seam", "a-line",
          "fit and flared", "one shoulder", "puff sleeves", "ruched waist">>,
     blazers |->
        <<"straight", "peplum", "structured", "double-breasted",
          "moto-jacket", "safari jacket", "empire waist">>,
     colors |->
        [do |->
            "Bold and bright colors for upper and lower body, dark belts for waist definition",
         avoid |->
            "Bold colors around waist area"]]

hourglass_rules ==
    [description |->
        "Balanced shoulders and hips with defined waist",
     goals |->
        <<"Maintain natural curves", "Accentuate waist",
          "Keep proportions balanced">>,
     tops |->
        [best |->
            <<"fitted shirts", "wrap shirts", "belted shirts", "peplum",
              "keyhole">>,
         necklines |->
            <<"scoop", "v-neck", "off-shoulder", "jewel", "oval",
              "sweetheart", "queen anne">>,
         sleeves |->
            <<"set-in", "fitted", "bishop", "sleeveless">>,
         avoid |->
            <<"heavy embroidery", "shoulder pads",
              "bulky details around bust">>],
     bottoms |->
        [jeans |->
            <<"straight", "bootleg", "wide", "slim", "flared",
              "high/mid-rise">>,
         pants |->
            <<"high/mid-rise styles that define waist">>,
         skirts |->
            <<"full", "pencil", "gored", "a-line", "tulip">>,
         shorts |->
            <<"tapered", "structured", "bermuda", "flared", "loose">>],
     dresses |->
        <<"bias", "peplum", "shift", "wrap", "corset", "sheath">>,
     jumpsuits |->
        <<"wide leg", "strapless", "belted", "flaring">>,
     coats |->
        <<"a-line", "princess", "wrap", "belted", "trench", "swing",
          "capelet">>,
     colors |->
        [do |->
            "Simple, minimalistic pieces in solid colors",
         avoid |->
            "Overwhelming patterns that hide natural curves"]]

triangle_rules ==
    [description |->
        "Hips wider than shoulders with defined waist",
     goals |->
        <<"Balance proportions", "Add volume to upper body",
          "Minimize lower body volume">>,
     tops |->
        [best |->
            <<"wrap bust", "slim fit", "cropped around hipline",
              "tie necks">>,
         necklines |->
            <<"bateau", "boat", "cowl", "off-shoulder", "heart",
              "sabrina", "sweetheart", "crew", "slash", "turtle">>,
         sleeves |->
            <<"petal", "batwing", "cap", "tapered", "flutter", "juliet">>,
         details |->
            <<"horizontal stripes", "bold patterns", "shoulder details">>],
     bottoms |->
        [pants |->
            <<"high/mid rise", "flare", "bootcut", "straight", "wide-leg">>,
         jeans |->
            <<"straight", "bootcut", "flare leg", "high/mid-rise",
              "wide-leg">>,
         skirts |->
            <<"a-line", "bias", "tulip", "straight", "wrap",
              "asymmetrical", "circle">>,
         shorts |->
            <<"high/mid-rise", "belted", "flare", "straight">>],
     dresses |->
        <<"tulip", "a-line", "x-line", "empire", "off-shoulder", "wrap",
          "belted">>,
     outerwear |->
        [jackets |->
            <<"long shearling", "shrug", "trapeze", "cropped", "belted",
              "bolero">>,
         coats |->
            <<"a-line", "empire", "princess", "belted", "trench", "wrap">>],
     colors |->
        [do |->
            "Light and bright colors for upper body, darker shades for lower body",
         avoid |->
            "Bold details around hips"]]

inverted_triangle_rules ==
    [description |->
        "Shoulders broader than hips with athletic build",
     goals |->
        <<"Balance broad shoulders", "Add volume to lower body",
          "Create hip curves">>,
     tops |->
        [best |->
            <<"soft flowing fabrics", "minimal shoulder details",
              "v-necks", "scoop necks">>,
         avoid |->
            <<"shoulder pads", "boat necks", "off-shoulder",
              "horizontal stripes on top">>],
     bottoms |->
        [pants |->
            <<"wide leg", "flare", "bootcut", "palazzo",
              "straight with details">>,
         jeans |->
            <<"flare", "wide leg", "bootcut", "boyfriend", "baggy">>,
         skirts |->
            <<"a-line", "circle", "pleated", "flare", "full", "layered">>,
         shorts |->
            <<"wide", "flare", "pleated", "cargo", "palazzo">>],
     dresses |->
        <<"a-line", "fit and flare", "empire waist", "wrap",
          "off-shoulder (if balancing with volume below)">>,
     outerwear |->
        [jackets |->
            <<"peplum", "belted", "cropped", "fitted at waist">>,
         coats |->
            <<"a-line", "flare", "princess", "wrap", "trench">>],
     colors |->
        [do |->
            "Darker colors on top, brighter colors on bottom",
         avoid |->
            "Bold patterns or light colors that emphasize shoulders"]]

\* the table as the module defines it, keyed by body type
\* the table without its last entry
StylingRulesTable_without_inverted_triangle ==
    (RECTANGLE :> rectangle_rules) @@ (HOURGLASS :> hourglass_rules)
    @@ (TRIANGLE :> triangle_rules)

StylingRulesTable ==
    (RECTANGLE :> rectangle_rules) @@ (HOURGLASS :> hourglass_rules)
    @@ (TRIANGLE :> triangle_rules)
    @@ (INVERTED_TRIANGLE :> inverted_triangle_rules)

----------------------------------------------------------------------------
(* State: one call in progress, its arguments and what it has returned *)

VARIABLES
    pc,               \* where the caller is
    front_landmarks,  \* argument of calculate_body_ratios
    ratios,           \* what calculate_body_ratios returned
    reference,        \* reference_measurement passed to the converter, or None
    measurements,     \* the BodyMeasurements classified / converted
    body_shape,       \* what determine_body_shape returned
    raised,           \* the exception that ended the call, or None
    STYLING_RULES,    \* the module-level knowledge base of the engine
    call,             \* the latest call of the engine or of a boundary
    returned,         \* what that call returned or raised
    earlier,          \* a call remembered with its result, or None
    calls,            \* how many calls have been made
    threads           \* the calls in progress in each thread, or None

scan_vars ==
    <<pc, front_landmarks, ratios, reference, measurements, body_shape, raised>>

scan_vars_but_pc ==
    <<front_landmarks, ratios, reference, measurements, body_shape, raised>>

engine_vars == <<STYLING_RULES, call, returned, earlier, calls, threads>>

vars == <<scan_vars, engine_vars>>

\* the engine as the import of the module leaves it, nothing called yet
InitEngine ==
    /\ STYLING_RULES = StylingRulesTable
    /\ call = None
    /\ returned = None
    /\ earlier = None
    /\ calls = 0
    /\ threads = None

----------------------------------------------------------------------------
(* Bounds and inputs *)

\* measurements in inches: 0 and the even values 26, 28, ..., 26 + 2*MaxSteps
MaxSteps == 7

\* pixel coordinates of a landmark: x and y in 0..MaxCoord
MaxCoord == 1

\* reference measurements passed: 30, 60, ..., 30*MaxReference (and none
\* passed, which is the default 36)
MaxReference == 1

MeasurementValues == {0} \cup {26 + 2 * k : k \in 0..MaxSteps}

MeasurementInputs ==
    {BodyMeasurements(Rat(s), Rat(b), Rat(w), Rat(h)) :
        s \in MeasurementValues, b \in MeasurementValues,
        w \in MeasurementValues, h \in MeasurementValues}

Points == (0..MaxCoord) \X (0..MaxCoord)

\* a pose of n landmarks: the four the scanner reads, the others at the origin
LandmarkList(n, p11, p12, p23, p24) ==
    [i \in 0..(n - 1) |->
        CASE i = 11 -> p11
          [] i = 12 -> p12
          [] i = 23 -> p23
          [] i = 24 -> p24
          [] OTHER -> <<0, 0>>]

\* 33 is the pose detector's full schema; 20 and 24 lack hip landmarks
LandmarkCounts == {20, 24, 25, 33}

LandmarkInputs ==
    {BodyLandmarks(FRONT, LandmarkList(n, p11, p12, p23, p24), 640, 480,
                   Frac(9, 10)) :
        n \in LandmarkCounts, p11 \in Points, p12 \in Points,
        p23 \in Points, p24 \in Points}

ReferenceInputs == {None} \cup {Rat(30 * k) : k \in 1..MaxReference}

----------------------------------------------------------------------------
(* SpecClassifier: calls of determine_body_shape on measurement quadruples *)

InitClassifier ==
    /\ pc = "ready"
    /\ front_landmarks = None
    /\ ratios = None
    /\ reference = None
    /\ measurements = None
    /\ body_shape = None
    /\ raised = None
    /\ InitEngine

\* a first call, on any quadruple
Classify ==
    /\ pc = "ready"
    /\ \E m \in MeasurementInputs : \E result \in {determine_body_shape(m)} :
        /\ measurements' = m
        /\ body_shape' = IF IsException(result) THEN None ELSE result
        /\ raised' = IF IsException(result) THEN result ELSE None
        /\ pc' = "classified"
        /\ UNCHANGED <<front_landmarks, ratios, reference>>
        /\ UNCHANGED engine_vars

\* a repeated call, on the same quadruple
ClassifyAgain ==
    /\ pc = "classified"
    /\ \E result \in {determine_body_shape(measurements)} :
        /\ body_shape' = IF IsException(result) THEN None ELSE result
        /\ raised' = IF IsException(result) THEN result ELSE None
        /\ UNCHANGED <<pc, front_landmarks, ratios, reference, measurements>>
        /\ UNCHANGED engine_vars

NextClassifier ==
    \/ Classify
    \/ ClassifyAgain

SpecClassifier == InitClassifier /\ [][NextClassifier]_vars

----------------------------------------------------------------------------
(* SpecScanner: landmarks -> ratios -> measurements -> body shape, the      *)
(* calls of analyze_body_shape_from_photos lines 242-259 on a front view    *)

InitScanner ==
    /\ pc = "landmarks"
    /\ front_landmarks = None
    /\ ratios = None
    /\ reference = None
    /\ measurements = None
    /\ body_shape = None
    /\ raised = None
    /\ InitEngine

\* line 244: ratios = self.calculate_body_ratios(front_landmarks)
CalculateBodyRatios ==
    /\ pc = "landmarks"
    /\ \E lm \in LandmarkInputs : \E result \in {calculate_body_ratios(lm)} :
        /\ front_landmarks' = lm
        /\ ratios' = IF IsException(result) THEN None ELSE result
        /\ raised' = IF IsException(result) THEN result ELSE None
        /\ pc' = IF IsException(result) THEN "calculate_raised"
                 ELSE IF result = None THEN "unavailable" ELSE "ratios"
        /\ UNCHANGED <<reference, measurements, body_shape>>
        /\ UNCHANGED engine_vars

\* line 254: measurements = self.convert_ratios_to_measurements(ratios, ref)
ConvertRatiosToMeasurements ==
    /\ pc = "ratios"
    /\ \E ref \in ReferenceInputs :
          \E result \in {convert_ratios_to_measurements(ratios, ref)} :
        /\ reference' = ref
        /\ measurements' = IF IsException(result) THEN None ELSE result
        /\ raised' = IF IsException(result) THEN result ELSE None
        /\ pc' = IF IsException(result) THEN "convert_raised"
                 ELSE "measurements"
        /\ UNCHANGED <<front_landmarks, ratios, body_shape>>
        /\ UNCHANGED engine_vars

\* line 258: body_shape = determine_body_shape(measurements)
DetermineBodyShape ==
    /\ pc = "measurements"
    /\ \E result \in {determine_body_shape(measurements)} :
        /\ body_shape' = IF IsException(result) THEN None ELSE result
        /\ raised' = IF IsException(result) THEN result ELSE None
        /\ pc' = IF IsException(result) THEN "classify_raised" ELSE "done"
        /\ UNCHANGED <<front_landmarks, ratios, reference, measurements>>
        /\ UNCHANGED engine_vars

NextScanner ==
    \/ CalculateBodyRatios
    \/ ConvertRatiosToMeasurements
    \/ DetermineBodyShape

SpecScanner == InitScanner /\ [][NextScanner]_vars

----------------------------------------------------------------------------
(* Claims about determine_body_shape, under SpecClassifier *)

\* the call has returned or raised
Classified == pc = "classified"

Positive(m) ==
    /\ Gt(m.shoulders, Rat(0))
    /\ Gt(m.bust, Rat(0))
    /\ Gt(m.waist, Rat(0))
    /\ Gt(m.hips, Rat(0))

Quadruple(s, b, w, h) == BodyMeasurements(Rat(s), Rat(b), Rat(w), Rat(h))

\* C1: on every quadruple of positive measurements determine_body_shape
\* returns one of the four body types and does not raise.
C1_TotalOnPositive ==
    (Classified /\ Positive(measurements))
        => (body_shape \in BodyType /\ raised = None)

\* a positive quadruple that no rule matches: bust 10% off the shoulders,
\* waist reduction under 25%, shoulders = hips
C1_Witness ==
    /\ Classified
    /\ measurements = Quadruple(36, 40, 30, 36)
    /\ body_shape = RECTANGLE

\* The rules of C2 on integer inches, each inequality multiplied out so that
\* it needs no division.
IMax(x, y) == IF y > x THEN y ELSE x

Rule1(s, b, w, h) ==
    /\ 100 * (s - w) < 25 * s
    /\ 100 * IAbs(s - h) <= 5 * IMax(s, h)
    /\ 100 * IAbs(s - b) <= 5 * IMax(s, b)

Rule2(s, b, w, h) ==
    /\ 100 * (s - w) >= 25 * s
    /\ 100 * (h - w) >= 25 * h
    /\ 100 * IAbs(s - h) <= 5 * IMax(s, h)

Rule3(s, b, w, h) == 100 * (h - s) >= 5 * s

Rule4(s, b, w, h) == s > h /\ 100 * (s - h) >= 5 * h

FirstMatchingRule(s, b, w, h) ==
    IF Rule1(s, b, w, h) THEN RECTANGLE
    ELSE IF Rule2(s, b, w, h) THEN HOURGLASS
    ELSE IF Rule3(s, b, w, h) THEN TRIANGLE
    ELSE IF Rule4(s, b, w, h) THEN INVERTED_TRIANGLE
    ELSE RECTANGLE

\* the inches of a measurement given as a whole number
Inches(x) == x.a

\* C2: on every positive quadruple the result is that of the first rule that
\* matches, in the order rectangle, hourglass, triangle, inverted triangle,
\* and RECTANGLE when none does.
C2_FirstMatchingRule ==
    (Classified /\ Positive(measurements))
        => body_shape = FirstMatchingRule(Inches(measurements.shoulders),
                                          Inches(measurements.bust),
                                          Inches(measurements.waist),
                                          Inches(measurements.hips))

\* a quadruple that rule 1 and rule 3 both match gets rule 1's result
C2_Witness ==
    /\ Classified
    /\ Positive(measurements)
    /\ Rule1(Inches(measurements.shoulders), Inches(measurements.bust),
             Inches(measurements.waist), Inches(measurements.hips))
    /\ Rule3(Inches(measurements.shoulders), Inches(measurements.bust),
             Inches(measurements.waist), Inches(measurements.hips))
    /\ body_shape = RECTANGLE

\* C3: the four canonical vectors classify as RECTANGLE, HOURGLASS, TRIANGLE
\* and INVERTED_TRIANGLE, on the first call and on every repeated call.
C3_CanonicalVectors ==
    Classified =>
        /\ measurements = Quadruple(36, 36, 30, 36) => body_shape = RECTANGLE
        /\ measurements = Quadruple(36, 36, 26, 36) => body_shape = HOURGLASS
        /\ measurements = Quadruple(34, 34, 28, 38) => body_shape = TRIANGLE
        /\ measurements = Quadruple(38, 36, 30, 34)
               => body_shape = INVERTED_TRIANGLE

C3_Witness ==
    /\ Classified
    /\ measurements = Quadruple(38, 36, 30, 34)
    /\ body_shape = INVERTED_TRIANGLE

\* C4: determine_body_shape returns a body type without a division fault for
\* any measurements, shoulders = 0 and hips = 0 included.
C4_NoDivisionFault == Classified => (raised = None /\ body_shape \in BodyType)

----------------------------------------------------------------------------
(* Claims about the scanner, under SpecScanner *)

\* calculate_body_ratios has just returned or raised
Calculated == pc \in {"unavailable", "ratios", "calculate_raised"}

\* ... on a landmark list of at least 25 points
CalculatedOnFullPose ==
    Calculated /\ LandmarkCount(front_landmarks.landmarks) >= 25

\* the square of the distance between landmarks i and j, in whole pixels
SquaredDistance(i, j) ==
    LET p == front_landmarks.landmarks[i]
        q == front_landmarks.landmarks[j]
    IN  (q[1] - p[1]) * (q[1] - p[1]) + (q[2] - p[2]) * (q[2] - p[2])

\* S*S and H*H of C6
ShoulderSquared == SquaredDistance(11, 12)

HipSquared == SquaredDistance(23, 24)

IsNumber(x) == DOMAIN x = {"a", "b", "d", "r"} /\ x.d > 0

\* x is the non-negative square root of n / d
IsRootOf(x, n, d) == Sign(x) >= 0 /\ Mul(x, x) = Frac(n, d)

\* C5: calculate_body_ratios returns None for every landmark list of fewer
\* than 25 points, and a BodyRatios with all six fields set for every list
\* of at least 25.
C5_UnavailableOrComplete ==
    Calculated =>
        IF LandmarkCount(front_landmarks.landmarks) < 25
        THEN ratios = None /\ raised = None /\ pc = "unavailable"
        ELSE /\ raised = None
             /\ DOMAIN ratios = BodyRatiosFields
             /\ \A f \in BodyRatiosFields : IsNumber(ratios[f])

C5_Witness ==
    /\ pc = "unavailable"
    /\ LandmarkCount(front_landmarks.landmarks) = 20
    /\ ratios = None

\* C6: on at least 25 points, with S the distance of landmarks 11 and 12 and
\* H that of landmarks 23 and 24, shoulder_to_hip_ratio is S / H when H > 0
\* and 1 when H = 0.
C6_ShoulderToHipRatio ==
    CalculatedOnFullPose =>
        /\ ratios # None
        /\ IsRootOf(ratios.shoulder_width_pixels, ShoulderSquared, 1)
        /\ IsRootOf(ratios.hip_width_pixels, HipSquared, 1)
        /\ IF HipSquared > 0
           THEN IsRootOf(ratios.shoulder_to_hip_ratio,
                         ShoulderSquared, HipSquared)
           ELSE ratios.shoulder_to_hip_ratio = Rat(1)

\* S = sqrt(2), H = 1: the ratio is the irrational sqrt(2)
C6_Witness ==
    /\ pc = "ratios"
    /\ ShoulderSquared = 2
    /\ HipSquared = 1
    /\ ratios.shoulder_to_hip_ratio = Sqrt(2)

Converted == pc \in {"measurements", "convert_raised"}

\* the reference the call used
ReferencePassed == IF reference = None THEN Rat(36) ELSE reference

\* C8: for every BodyRatios and every reference value the converter returns
\* measurements with shoulders = the reference (36 when none is passed),
\* bust = shoulders and waist = shoulders * waist_to_shoulder_ratio.
C8_ConverterOutput ==
    Converted =>
        /\ measurements # None
        /\ measurements.shoulders = ReferencePassed
        /\ measurements.bust = measurements.shoulders
        /\ measurements.waist =
               Mul(measurements.shoulders, ratios.waist_to_shoulder_ratio)

\* C9: the converter always succeeds: it returns measurements for every
\* BodyRatios, with hips = shoulders / shoulder_to_hip_ratio when the ratio is
\* not zero and hips = shoulders when it is.
C9_ConverterAlwaysSucceeds ==
    Converted =>
        /\ raised = None
        /\ measurements # None
        /\ IF IsZero(ratios.shoulder_to_hip_ratio)
           THEN measurements.hips = measurements.shoulders
           ELSE Mul(measurements.hips, ratios.shoulder_to_hip_ratio)
                    = measurements.shoulders

\* C10: on every landmark list of at least 25 points, coinciding shoulder
\* points and coinciding hip points included, the pipeline raises nowhere
\* and ends with a body type.
C10_PipelineCompletes ==
    (pc # "landmarks" /\ LandmarkCount(front_landmarks.landmarks) >= 25) =>
        /\ pc \notin {"calculate_raised", "convert_raised", "classify_raised"}
        /\ pc = "done" => body_shape \in BodyType

----------------------------------------------------------------------------
(* recommendation_engine.py: the outfit generator. A Python value that is   *)
(* not an enum member where one is expected is None or a string, Str(s)     *)

AttributeError == [exception |-> "AttributeError"]

ValueError == [exception |-> "ValueError"]

Str(s) == [str |-> s]

CASUAL == [enum |-> "StylePreference", value |-> "casual"]
FORMAL == [enum |-> "StylePreference", value |-> "formal"]
TRENDY == [enum |-> "StylePreference", value |-> "trendy"]
MINIMALIST == [enum |-> "StylePreference", value |-> "minimalist"]
BOHEMIAN == [enum |-> "StylePreference", value |-> "bohemian"]
CLASSIC == [enum |-> "StylePreference", value |-> "classic"]

StylePreference == {CASUAL, FORMAL, TRENDY, MINIMALIST, BOHEMIAN, CLASSIC}

LOW == [enum |-> "BudgetRange", value |-> "low"]
MID == [enum |-> "BudgetRange", value |-> "mid"]
HIGH == [enum |-> "BudgetRange", value |-> "high"]

BudgetRange == {LOW, MID, HIGH}

WARM == [enum |-> "SkinTone", value |-> "warm"]
COOL == [enum |-> "SkinTone", value |-> "cool"]
NEUTRAL == [enum |-> "SkinTone", value |-> "neutral"]

SkinTone == {WARM, COOL, NEUTRAL}

EVERYDAY == [enum |-> "Occasion", value |-> "everyday"]
WORK == [enum |-> "Occasion", value |-> "work"]
DATE == [enum |-> "Occasion", value |-> "date"]
PARTY == [enum |-> "Occasion", value |-> "party"]
FORMAL_EVENT == [enum |-> "Occasion", value |-> "formal_event"]
WORKOUT == [enum |-> "Occasion", value |-> "workout"]

Occasion == {EVERYDAY, WORK, DATE, PARTY, FORMAL_EVENT, WORKOUT}

UserProfile(body_type, profile_measurements, skin_tone, age_range, gender_style) ==
    [body_type |-> body_type, measurements |-> profile_measurements,
     skin_tone |-> skin_tone, age_range |-> age_range,
     gender_style |-> gender_style]

UserPreferences(favorite_colors, style_preference, budget_range, occasion, disliked_colors, preferred_brands, avoided_brands) ==
    [favorite_colors |-> favorite_colors,
     style_preference |-> style_preference,
     budget_range |-> budget_range, occasion |-> occasion,
     disliked_colors |-> disliked_colors,
     preferred_brands |-> preferred_brands,
     avoided_brands |-> avoided_brands]

\* an optional list that was given
List(items) == [list |-> items]

\* d.get(key, default)
DictGet(d, key, default) == IF key \in DOMAIN d THEN d[key] ELSE default

\* x.value: only an enum member has the attribute
HasValue(x) == "value" \in DOMAIN x

\* str(v) inside the f-string of line 240, as the pieces of the text; the
\* values formatted there are the ones that are no key of the table
py_str(v) ==
    CASE v = None -> <<"None">>
      [] "str" \in DOMAIN v -> <<v.str>>

select_from_list_last(items, default) ==
    IF items # <<>> THEN items[Len(items)] ELSE default

\* lines 295-297: items[0] if items else default
select_from_list(items, default) ==
    IF items # <<>> THEN items[1] ELSE default

rules_of_default_rectangle(shape) ==
    IF shape \in DOMAIN STYLING_RULES THEN STYLING_RULES[shape]
    ELSE STYLING_RULES[RECTANGLE]

\* line 238: rules = STYLING_RULES.get(body_shape)
rules_of(shape) ==
    IF shape \in DOMAIN STYLING_RULES THEN STYLING_RULES[shape] ELSE None

\* lines 255-260
work_outfit(rules) ==
    [top |-> select_from_list(rules.tops.best, "blazer or button-down"),
     bottom |-> select_from_list(DictGet(rules.bottoms, "pants", <<>>),
                                 "tailored pants"),
     dress_alternative |-> select_from_list(DictGet(rules, "dresses", <<>>),
                                            "sheath dress"),
     shoes |-> "professional heels or flats",
     accessories |-> "minimal jewelry, structured bag"]

\* lines 263-268
party_outfit(rules) ==
    [dress |-> select_from_list(DictGet(rules, "dresses", <<>>),
                                "cocktail dress"),
     top_alternative |-> select_from_list(rules.tops.best, "dressy top"),
     bottom_alternative |->
         select_from_list(DictGet(rules.bottoms, "skirts", <<>>),
                          "dressy skirt"),
     shoes |-> "heels or dressy sandals",
     accessories |-> "statement jewelry"]

date_outfit_skirts(rules) ==
    [dress |-> select_from_list(DictGet(rules, "dresses", <<>>),
                                "wrap dress"),
     top_alternative |-> select_from_list(rules.tops.best, "fitted top"),
     bottom_alternative |->
         select_from_list(DictGet(rules.bottoms, "skirts", <<>>),
                          "nice jeans"),
     shoes |-> "heels or ankle boots",
     accessories |-> "delicate jewelry"]

\* lines 271-276
date_outfit(rules) ==
    [dress |-> select_from_list(DictGet(rules, "dresses", <<>>),
                                "wrap dress"),
     top_alternative |-> select_from_list(rules.tops.best, "fitted top"),
     bottom_alternative |->
         select_from_list(DictGet(rules.bottoms, "jeans", <<>>),
                          "nice jeans"),
     shoes |-> "heels or ankle boots",
     accessories |-> "delicate jewelry"]

\* lines 279-283
everyday_outfit(rules) ==
    [top |-> select_from_list(rules.tops.best, "casual top"),
     bottom |-> select_from_list(DictGet(rules.bottoms, "jeans", <<>>),
                                 "jeans"),
     shoes |-> "sneakers or comfortable flats",
     accessories |-> "casual bag, minimal jewelry"]

is_work_occasion_work_only(occasion) == occasion = WORK

\* line 254: occasion in [Occasion.WORK, Occasion.FORMAL_EVENT]
is_work_occasion(occasion) == occasion \in {WORK, FORMAL_EVENT}

\* lines 254-284: if / elif / elif / else
outfit_of(occasion, rules) ==
    IF is_work_occasion(occasion) THEN work_outfit(rules)
    ELSE IF occasion = PARTY THEN party_outfit(rules)
    ELSE IF occasion = DATE THEN date_outfit(rules)
    ELSE everyday_outfit(rules)

necklines_of_first_five(rules) ==
    LET necklines == DictGet(rules.tops, "necklines", <<>>)
    IN  IF Len(necklines) > 5 THEN SubSeq(necklines, 1, 5) ELSE necklines

\* line 289: rules["tops"].get("necklines", [])
necklines_of(rules) == DictGet(rules.tops, "necklines", <<>>)

\* lines 287-291
styling_tips_of(rules) ==
    [colors |-> DictGet(rules, "colors", <<>>),
     necklines |-> necklines_of(rules),
     avoid |-> DictGet(rules.tops, "avoid", <<>>)]

\* lines 243-251: the head of the result; favorite_colors is read at line
\* 235 into a local that nothing uses
outfit_head(shape, occasion, style_pref, rules) ==
    [body_shape |-> shape.value,
     occasion |-> occasion.value,
     style_preference |-> style_pref.value,
     recommendations |->
         [description |-> rules.description,
          styling_goals |-> rules.goals]]

generate_outfit_recommendations_by_budget(user_profile, preferences) ==
    LET shape == user_profile.body_type
        occasion == preferences.occasion
        style_pref == preferences.style_preference
        rules == rules_of(shape)
    IN  IF rules = None
        THEN [error |->
                 <<"No styling rules found for body shape: ">>
                     \o py_str(shape)]
        ELSE IF ~HasValue(shape) \/ ~HasValue(occasion)
                \/ ~HasValue(style_pref)
        THEN AttributeError
        ELSE outfit_head(shape, occasion, style_pref, rules)
             @@ [outfit |->
                     outfit_of(IF preferences.budget_range = HIGH
                               THEN FORMAL_EVENT ELSE occasion, rules),
                 styling_tips |-> styling_tips_of(rules)]

\* lines 221-293
generate_outfit_recommendations(user_profile, preferences) ==
    IF "body_type" \notin DOMAIN user_profile THEN AttributeError
    ELSE
    LET shape == user_profile.body_type
        occasion == preferences.occasion
        style_pref == preferences.style_preference
        rules == rules_of(shape)
    IN  IF rules = None
        THEN [error |->
                 <<"No styling rules found for body shape: ">>
                     \o py_str(shape)]
        ELSE IF ~HasValue(shape) \/ ~HasValue(occasion)
                \/ ~HasValue(style_pref)
        THEN AttributeError
        ELSE outfit_head(shape, occasion, style_pref, rules)
             @@ [outfit |-> outfit_of(occasion, rules),
                 styling_tips |-> styling_tips_of(rules)]

\* the best tops of the body type reversed in place
styling_rules_after_generate_reversed(user_profile, preferences) ==
    LET shape == user_profile.body_type
    IN  IF shape \in DOMAIN STYLING_RULES
        THEN [STYLING_RULES EXCEPT ![shape].tops.best =
                 [i \in DOMAIN @ |-> @[Len(@) + 1 - i]]]
        ELSE STYLING_RULES

\* a default entry stored for a body type the table lacks
styling_rules_after_generate_cached(user_profile, preferences) ==
    LET shape == user_profile.body_type
    IN  IF shape \in DOMAIN STYLING_RULES THEN STYLING_RULES
        ELSE (shape :> STYLING_RULES[RECTANGLE]) @@ STYLING_RULES

styling_rules_after_generate_consumed(user_profile, preferences) ==
    LET shape == user_profile.body_type
    IN  IF shape \in DOMAIN STYLING_RULES
        THEN [STYLING_RULES EXCEPT ![shape].tops.best =
                 IF Len(@) > 1 THEN Tail(@) ELSE @]
        ELSE STYLING_RULES

\* what a call of the generator leaves in the table: it only reads it
styling_rules_after_generate(user_profile, preferences) == STYLING_RULES

----------------------------------------------------------------------------
(* SpecGenerator: one call of generate_outfit_recommendations, or of its    *)
(* helper _select_from_list, on any of the inputs below                     *)

\* body types a profile can carry: the members, None and a raw string
BodyTypeInputs == BodyType \cup {None, Str("rectangle")}

\* occasions: the members, a raw string and a member of another enum
OccasionInputs == Occasion \cup {Str("brunch"), CASUAL}

StylePreferenceInputs == {CASUAL, CLASSIC, Str("preppy")}

BudgetRangeInputs == {LOW, HIGH}

FavoriteColorsInputs == {<<"blue", "green", "red">>, <<"black">>}

\* the optional fields of a profile: all left out, or all given
ProfileInputs ==
    {UserProfile(bt, None, None, None, None) : bt \in BodyTypeInputs}
    \cup {UserProfile(bt,
                      BodyMeasurements(Rat(36), Rat(36), Rat(30), Rat(38)),
                      WARM, Str("26-35"), Str("feminine")) :
             bt \in BodyTypeInputs}

\* the optional fields of the preferences: all left out, or all given
PreferencesInputs ==
    {UserPreferences(fc, sp, br, oc, None, None, None) :
        fc \in FavoriteColorsInputs, sp \in StylePreferenceInputs,
        br \in BudgetRangeInputs, oc \in OccasionInputs}
    \cup {UserPreferences(fc, sp, br, oc, List(<<"yellow">>),
                          List(<<"acme">>), List(<<"zenith", "apex">>)) :
             fc \in FavoriteColorsInputs, sp \in StylePreferenceInputs,
             br \in BudgetRangeInputs, oc \in OccasionInputs}

ItemsInputs == {<<>>, <<"wrap">>, <<"slim", "straight", "bootcut">>}

DefaultInputs == {"jeans", "sheath dress"}

InitGenerator ==
    /\ pc = "ready"
    /\ front_landmarks = None
    /\ ratios = None
    /\ reference = None
    /\ measurements = None
    /\ body_shape = None
    /\ raised = None
    /\ InitEngine

\* generate_outfit_recommendations(user_profile, preferences)
Generate ==
    /\ pc = "ready"
    /\ \E up \in ProfileInputs : \E pr \in PreferencesInputs :
       \E result \in {generate_outfit_recommendations(up, pr)} :
        /\ call' = [fn |-> "generate_outfit_recommendations",
                    user_profile |-> up, preferences |-> pr]
        /\ returned' = result
        /\ STYLING_RULES' = styling_rules_after_generate(up, pr)
        /\ calls' = calls + 1
        /\ pc' = "returned"
        /\ UNCHANGED <<front_landmarks, ratios, reference, measurements,
                       body_shape, raised, earlier>>
        /\ UNCHANGED threads

\* _select_from_list(items, default)
SelectFromList ==
    /\ pc = "ready"
    /\ \E items \in ItemsInputs : \E default \in DefaultInputs :
       \E result \in {select_from_list(items, default)} :
        /\ call' = [fn |-> "_select_from_list", items |-> items,
                    default |-> default]
        /\ returned' = [selected |-> result]
        /\ calls' = calls + 1
        /\ pc' = "returned"
        /\ UNCHANGED <<front_landmarks, ratios, reference, measurements,
                       body_shape, raised, STYLING_RULES, earlier>>
        /\ UNCHANGED threads

NextGenerator ==
    \/ Generate
    \/ SelectFromList

SpecGenerator == InitGenerator /\ [][NextGenerator]_vars

\* the latest call was of the generator
Generated ==
    /\ call # None
    /\ call.fn = "generate_outfit_recommendations"

\* the latest call of the generator returned a recommendation
Recommended ==
    /\ Generated
    /\ "outfit" \in DOMAIN returned

----------------------------------------------------------------------------
(* Claims about one call of the generator, checked under SpecGenerator *)

\* the arguments of the latest call of the generator
ProfileBodyType == call.user_profile.body_type

PreferredOccasion == call.preferences.occasion

WorkKeys == {"top", "bottom", "dress_alternative", "shoes", "accessories"}

DressKeys ==
    {"dress", "top_alternative", "bottom_alternative", "shoes",
     "accessories"}

CasualKeys == {"top", "bottom", "shoes", "accessories"}

\* C11: the key set of the outfit mapping depends only on the occasion:
\* WORK and FORMAL_EVENT give top, bottom, dress_alternative, shoes and
\* accessories; PARTY and DATE give dress, top_alternative,
\* bottom_alternative, shoes and accessories; EVERYDAY and WORKOUT give top,
\* bottom, shoes and accessories, whatever the body type and the other
\* preferences are.
C11_OutfitKeysByOccasion ==
    (Recommended /\ PreferredOccasion \in Occasion) =>
        /\ PreferredOccasion \in {WORK, FORMAL_EVENT} =>
               DOMAIN returned.outfit = WorkKeys
        /\ PreferredOccasion \in {PARTY, DATE} =>
               DOMAIN returned.outfit = DressKeys
        /\ PreferredOccasion \in {EVERYDAY, WORKOUT} =>
               DOMAIN returned.outfit = CasualKeys

C11_Witness ==
    /\ Recommended
    /\ PreferredOccasion = FORMAL_EVENT
    /\ ProfileBodyType = TRIANGLE
    /\ DOMAIN returned.outfit = WorkKeys

\* C13: when the body type of the profile has no entry in the knowledge
\* base, the generator returns an error result that names the body shape and
\* carries nothing else: no outfit, no styling tips, and no rules of another
\* body type substituted.
C13_MissingBodyTypeIsError ==
    (Generated /\ ProfileBodyType \notin DOMAIN STYLING_RULES) =>
        /\ DOMAIN returned = {"error"}
        /\ Len(returned.error) = 2
        /\ returned.error[1] = "No styling rules found for body shape: "
        /\ returned.error[2] =
               IF ProfileBodyType = None THEN "None"
               ELSE ProfileBodyType.str

C13_Witness ==
    /\ Generated
    /\ ProfileBodyType = None
    /\ PreferredOccasion = WORK
    /\ DOMAIN returned = {"error"}

\* C14: called with an occasion that is none of the six Occasion members,
\* the generator fails closed: it produces an error and no outfit, and
\* applies no occasion policy.
C14_UnknownOccasionFailsClosed ==
    (Generated /\ PreferredOccasion \notin Occasion) =>
        /\ "outfit" \notin DOMAIN returned
        /\ IsException(returned) \/ "error" \in DOMAIN returned

\* the entries the first-element policy can return for a body type
FirstEntries(rules) ==
    {rules.tops.best[1], rules.bottoms.pants[1], rules.bottoms.jeans[1],
     rules.bottoms.skirts[1], rules.dresses[1]}

GarmentSlots ==
    {"top", "bottom", "dress", "dress_alternative", "top_alternative",
     "bottom_alternative"}

\* C16: every garment slot is filled first-element-or-default: the helper
\* returns the first entry of the list it is given when the list is not
\* empty and the slot's fallback otherwise, so a garment slot of an outfit
\* only ever holds the first entry of a garment list of the body type.
C16_FirstElementOrDefault ==
    /\ (call # None /\ call.fn = "_select_from_list") =>
           returned.selected =
               IF Len(call.items) > 0 THEN Head(call.items)
               ELSE call.default
    /\ Recommended =>
           \A slot \in DOMAIN returned.outfit \cap GarmentSlots :
               returned.outfit[slot]
                   \in FirstEntries(STYLING_RULES[ProfileBodyType])

C16_Witness ==
    /\ Recommended
    /\ ProfileBodyType = RECTANGLE
    /\ PreferredOccasion = WORK
    /\ returned.outfit.top = "tank tops"
    /\ returned.outfit.bottom = "cargo pants"
    /\ returned.outfit.dress_alternative = "wrap"

\* C17: the list behind each slot is fixed by the occasion. WORK and
\* FORMAL_EVENT: top from tops.best, bottom from bottoms.pants,
\* dress_alternative from dresses. PARTY: dress from dresses,
\* top_alternative from tops.best, bottom_alternative from bottoms.skirts.
\* DATE: as PARTY with bottom_alternative from bottoms.jeans. EVERYDAY and
\* WORKOUT: top from tops.best, bottom from bottoms.jeans. Shoes and
\* accessories are the fixed strings of the policy, so WORK and FORMAL_EVENT
\* give one outfit mapping per body type, and so do EVERYDAY and WORKOUT.
C17_SlotSourcesByOccasion ==
    (Recommended /\ PreferredOccasion \in Occasion) =>
        LET kb == STYLING_RULES[ProfileBodyType]
            o == returned.outfit
        IN  /\ PreferredOccasion \in {WORK, FORMAL_EVENT} =>
                   o = [top |-> kb.tops.best[1],
                        bottom |-> kb.bottoms.pants[1],
                        dress_alternative |-> kb.dresses[1],
                        shoes |-> "professional heels or flats",
                        accessories |-> "minimal jewelry, structured bag"]
            /\ PreferredOccasion = PARTY =>
                   o = [dress |-> kb.dresses[1],
                        top_alternative |-> kb.tops.best[1],
                        bottom_alternative |-> kb.bottoms.skirts[1],
                        shoes |-> "heels or dressy sandals",
                        accessories |-> "statement jewelry"]
            /\ PreferredOccasion = DATE =>
                   o = [dress |-> kb.dresses[1],
                        top_alternative |-> kb.tops.best[1],
                        bottom_alternative |-> kb.bottoms.jeans[1],
                        shoes |-> "heels or ankle boots",
                        accessories |-> "delicate jewelry"]
            /\ PreferredOccasion \in {EVERYDAY, WORKOUT} =>
                   o = [top |-> kb.tops.best[1],
                        bottom |-> kb.bottoms.jeans[1],
                        shoes |-> "sneakers or comfortable flats",
                        accessories |-> "casual bag, minimal jewelry"]

C17_Witness ==
    /\ Recommended
    /\ ProfileBodyType = HOURGLASS
    /\ PreferredOccasion = DATE
    /\ returned.outfit.dress = "bias"
    /\ returned.outfit.top_alternative = "fitted shirts"
    /\ returned.outfit.bottom_alternative = "straight"

\* C19: the recommendation carries the style preference and the favourite
\* colours of the preferences it was given, unmodified, next to the body
\* shape and the occasion.
C19_PreferencesPassThrough ==
    Recommended =>
        /\ returned.body_shape = ProfileBodyType.value
        /\ returned.occasion = PreferredOccasion.value
        /\ returned.style_preference =
               call.preferences.style_preference.value
        /\ "favorite_colors" \in DOMAIN returned
        /\ returned.favorite_colors = call.preferences.favorite_colors

\* C20: the styling tips are the colours record of the body type, the
\* necklines list and the avoid list of its tops, each whole and in order;
\* a rule without a necklines or an avoid list gives an empty list there and
\* no error.
C20_StylingTips ==
    Recommended =>
        LET kb == STYLING_RULES[ProfileBodyType]
            tips == returned.styling_tips
        IN  /\ DOMAIN tips = {"colors", "necklines", "avoid"}
            /\ tips.colors = kb.colors
            /\ tips.necklines =
                   IF "necklines" \in DOMAIN kb.tops THEN kb.tops.necklines
                   ELSE <<>>
            /\ tips.avoid =
                   IF "avoid" \in DOMAIN kb.tops THEN kb.tops.avoid
                   ELSE <<>>
            /\ ProfileBodyType = RECTANGLE =>
                   Len(tips.necklines) = 9 /\ tips.necklines[9] = "cowl"
            /\ ProfileBodyType = INVERTED_TRIANGLE => tips.necklines = <<>>
            /\ ProfileBodyType = TRIANGLE => tips.avoid = <<>>

C20_Witness ==
    /\ Recommended
    /\ ProfileBodyType = INVERTED_TRIANGLE
    /\ returned.styling_tips.necklines = <<>>
    /\ Len(returned.styling_tips.avoid) = 4
    /\ returned.styling_tips.colors.do =
           "Darker colors on top, brighter colors on bottom"

----------------------------------------------------------------------------
(* SpecHistory: a session of up to MaxCalls calls of determine_body_shape   *)
(* and generate_outfit_recommendations in any order. The first call is      *)
(* remembered with what it returned                                         *)

\* calls in one session
MaxCalls == 3

HistoryProfileInputs ==
    {up \in ProfileInputs : up.body_type \in {RECTANGLE, TRIANGLE, None}}

HistoryPreferencesInputs ==
    {UserPreferences(<<"blue", "green", "red">>, CASUAL, LOW, oc,
                     None, None, None) : oc \in {WORK, DATE, EVERYDAY}}
    \cup {UserPreferences(<<"black">>, CLASSIC, HIGH, oc, List(<<"yellow">>),
                          List(<<"acme">>), List(<<"zenith", "apex">>)) :
             oc \in {WORK, DATE, EVERYDAY}}

HistoryMeasurementInputs ==
    {BodyMeasurements(Rat(36), Rat(36), Rat(30), Rat(38)),
     BodyMeasurements(Rat(34), Rat(34), Rat(32), Rat(34)),
     BodyMeasurements(Rat(36), Rat(36), Rat(30), Rat(0))}

InitHistory ==
    /\ pc = "session"
    /\ front_landmarks = None
    /\ ratios = None
    /\ reference = None
    /\ measurements = None
    /\ body_shape = None
    /\ raised = None
    /\ InitEngine

\* a call of generate_outfit_recommendations in the session
CallGenerate ==
    /\ pc = "session"
    /\ calls < MaxCalls
    /\ \E up \in HistoryProfileInputs : \E pr \in HistoryPreferencesInputs :
       \E result \in {generate_outfit_recommendations(up, pr)} :
        /\ call' = [fn |-> "generate_outfit_recommendations",
                    user_profile |-> up, preferences |-> pr]
        /\ returned' = result
        /\ STYLING_RULES' = styling_rules_after_generate(up, pr)
        /\ earlier' = IF calls = 0
                      THEN [call |-> call', returned |-> returned']
                      ELSE earlier
        /\ calls' = calls + 1
        /\ UNCHANGED scan_vars
        /\ UNCHANGED threads

\* a call of determine_body_shape in the session
CallDetermineBodyShape ==
    /\ pc = "session"
    /\ calls < MaxCalls
    /\ \E m \in HistoryMeasurementInputs :
       \E result \in {determine_body_shape(m)} :
        /\ call' = [fn |-> "determine_body_shape", measurements |-> m]
        /\ returned' = result
        /\ earlier' = IF calls = 0
                      THEN [call |-> call', returned |-> returned']
                      ELSE earlier
        /\ calls' = calls + 1
        /\ UNCHANGED <<scan_vars, STYLING_RULES>>
        /\ UNCHANGED threads

NextHistory ==
    \/ CallGenerate
    \/ CallDetermineBodyShape

SpecHistory == InitHistory /\ [][NextHistory]_vars

\* C12: both stages are deterministic and independent of history: after any
\* calls of determine_body_shape and generate_outfit_recommendations in
\* between, a call with the arguments of an earlier call returns what that
\* earlier call returned.
C12_HistoryIndependent ==
    (earlier # None /\ call = earlier.call) => returned = earlier.returned

C12_Witness ==
    /\ calls = MaxCalls
    /\ earlier # None
    /\ call = earlier.call
    /\ Recommended
    /\ returned = earlier.returned

\* both the remembered call and the latest one were of the generator
BothGenerated ==
    /\ earlier # None
    /\ earlier.call.fn = "generate_outfit_recommendations"
    /\ Generated

\* C18: item selection ignores the preferences: two calls with the same body
\* type and the same occasion give the same outfit mapping and the same
\* styling tips, whatever the favourite colours, style preference, budget
\* range, disliked colours and brands are, and whatever the measurements,
\* skin tone, age range and gender style of the profile are.
C18_SelectionIgnoresPreferences ==
    (/\ BothGenerated
     /\ ProfileBodyType = earlier.call.user_profile.body_type
     /\ PreferredOccasion = earlier.call.preferences.occasion) =>
        /\ Recommended <=> "outfit" \in DOMAIN earlier.returned
        /\ Recommended =>
               /\ returned.outfit = earlier.returned.outfit
               /\ returned.styling_tips = earlier.returned.styling_tips

C18_Witness ==
    /\ BothGenerated
    /\ Recommended
    /\ ProfileBodyType = earlier.call.user_profile.body_type
    /\ PreferredOccasion = earlier.call.preferences.occasion
    /\ call.preferences.budget_range # earlier.call.preferences.budget_range
    /\ call.preferences.favorite_colors
           # earlier.call.preferences.favorite_colors
    /\ call.user_profile.skin_tone # earlier.call.user_profile.skin_tone
    /\ returned.outfit = earlier.returned.outfit

----------------------------------------------------------------------------
(* The two callers that build UserPreferences from text: upload_photos of   *)
(* app.py and interactive_body_shape_detector of test_recommendations.py.   *)
(* A form is a function on the fields that were sent. The text of           *)
(* favorite_colors is kept as its parts between commas, which is what       *)
(* split(',') returns                                                       *)

enum_of_unchecked(members, text) ==
    IF \E m \in members : m.value = text
    THEN CHOOSE m \in members : m.value = text
    ELSE Str(text)

\* EnumClass(text): the member with that value, or ValueError
enum_of(members, text) ==
    IF \E m \in members : m.value = text
    THEN CHOOSE m \in members : m.value = text
    ELSE ValueError

\* input(...).lower() on the texts typed below
py_lower(text) ==
    CASE text = "WORK" -> "work"
      [] text = "Party" -> "party"
      [] OTHER -> text

\* app.py lines 101-107
default_preferences ==
    UserPreferences(<<"blue", "black", "white">>, CASUAL, MID, EVERYDAY,
                    None, None, None)

\* app.py lines 93-107: preferences from the form, the defaults when a
\* constructor raises ValueError
upload_preferences(form) ==
    LET colors == DictGet(form, "favorite_colors",
                          <<"blue", "black", "white">>)
        style == enum_of(StylePreference,
                         DictGet(form, "style_preference", "casual"))
        budget == enum_of(BudgetRange, DictGet(form, "budget_range", "mid"))
        occasion == enum_of(Occasion, DictGet(form, "occasion", "everyday"))
    IN  IF ValueError \in {style, budget, occasion}
        THEN default_preferences
        ELSE UserPreferences(colors, style, budget, occasion,
                             None, None, None)

\* app.py lines 109-146 for one analysed photo: the generator is called
\* when the analysis succeeded and its body shape text names a member
upload_photos(form, success, shape_text) ==
    LET preferences == upload_preferences(form)
        body_type_enum == enum_of(BodyType, shape_text)
    IN  IF success /\ body_type_enum # ValueError
        THEN [generator_called |-> TRUE, user_profile |-> body_type_enum,
              preferences |-> preferences]
        ELSE [generator_called |-> FALSE, user_profile |-> None,
              preferences |-> preferences]

\* test_recommendations.py lines 148-172
interactive_body_shape_detector(typed_measurements, typed_occasion) ==
    LET detected_shape == determine_body_shape(typed_measurements)
        parsed == enum_of(Occasion, py_lower(typed_occasion))
        occasion == IF parsed = ValueError THEN EVERYDAY ELSE parsed
    IN  IF IsException(detected_shape)
        THEN [generator_called |-> FALSE, user_profile |-> None,
              preferences |-> None]
        ELSE [generator_called |-> TRUE,
              user_profile |-> UserProfile(detected_shape,
                                           typed_measurements,
                                           None, None, None),
              preferences |->
                  UserPreferences(<<"blue", "black", "white">>, CLASSIC,
                                  MID, occasion, None, None, None)]

\* forms: each field left out, a member's value, or a text that is none
FormFields(keys, colors, style, budget, occasion) ==
    [k \in keys |->
        CASE k = "favorite_colors" -> colors
          [] k = "style_preference" -> style
          [] k = "budget_range" -> budget
          [] k = "occasion" -> occasion]

FormKeys ==
    {"favorite_colors", "style_preference", "budget_range", "occasion"}

FormInputs ==
    {FormFields(keys, <<"red", "navy">>, style, budget, occasion) :
        keys \in SUBSET FormKeys, style \in {"classic", "preppy"},
        budget \in {"high", "cheap"},
        occasion \in {"work", "party", "brunch"}}

ShapeTextInputs == {"rectangle", "triangle", "oval"}

TypedOccasionInputs == {"work", "WORK", "Party", "date", "brunch"}

InitBoundary ==
    /\ pc = "request"
    /\ front_landmarks = None
    /\ ratios = None
    /\ reference = None
    /\ measurements = None
    /\ body_shape = None
    /\ raised = None
    /\ InitEngine

\* a request to /api/upload with one photo
UploadPhotos ==
    /\ pc = "request"
    /\ \E form \in FormInputs : \E success \in BOOLEAN :
       \E shape_text \in ShapeTextInputs :
       \E result \in {upload_photos(form, success, shape_text)} :
        /\ call' = [fn |-> "upload_photos", form |-> form,
                    success |-> success, body_shape |-> shape_text]
        /\ returned' = result
        /\ calls' = calls + 1
        /\ pc' = "handled"
        /\ UNCHANGED <<front_landmarks, ratios, reference, measurements,
                       body_shape, raised, STYLING_RULES, earlier>>
        /\ UNCHANGED threads

\* a run of the interactive detector
InteractiveDetector ==
    /\ pc = "request"
    /\ \E m \in HistoryMeasurementInputs :
       \E typed \in TypedOccasionInputs :
       \E result \in {interactive_body_shape_detector(m, typed)} :
        /\ call' = [fn |-> "interactive_body_shape_detector",
                    measurements |-> m, occasion |-> typed]
        /\ returned' = result
        /\ calls' = calls + 1
        /\ pc' = "handled"
        /\ UNCHANGED <<front_landmarks, ratios, reference, measurements,
                       body_shape, raised, STYLING_RULES, earlier>>
        /\ UNCHANGED threads

NextBoundary ==
    \/ UploadPhotos
    \/ InteractiveDetector

SpecBoundary == InitBoundary /\ [][NextBoundary]_vars

Handled == pc = "handled"

Uploaded == Handled /\ call.fn = "upload_photos"

Interacted == Handled /\ call.fn = "interactive_body_shape_detector"

\* the text a form carries for a field is the value of no member
BadField(form, key, members) ==
    /\ key \in DOMAIN form
    /\ \A m \in members : m.value # form[key]

BadForm(form) ==
    \/ BadField(form, "style_preference", StylePreference)
    \/ BadField(form, "budget_range", BudgetRange)
    \/ BadField(form, "occasion", Occasion)

BadTypedOccasion(typed) ==
    typed \notin {"work", "WORK", "Party", "date", "party", "everyday",
                  "formal_event", "workout"}

ValidatedPreferences(preferences) ==
    /\ preferences.style_preference \in StylePreference
    /\ preferences.budget_range \in BudgetRange
    /\ preferences.occasion \in Occasion

\* C15 as stated: a request whose occasion, style preference or budget text
\* is no member of its enum is rejected at the boundary, and the generator
\* is only ever called with preferences whose enum fields are members.
C15_InvalidEnumRejected ==
    /\ (Uploaded /\ BadForm(call.form)) => ~returned.generator_called
    /\ (Interacted /\ BadTypedOccasion(call.occasion)) =>
           ~returned.generator_called
    /\ (Handled /\ returned.generator_called) =>
           ValidatedPreferences(returned.preferences)

\* C15 amended: no text that is not a member reaches the generator, but the
\* request is not rejected: upload_photos replaces all four preferences by
\* its defaults and the interactive detector replaces the occasion by
\* EVERYDAY, and the generator is called with those.
C15_InvalidEnumDefaulted ==
    /\ (Handled /\ returned.generator_called) =>
           ValidatedPreferences(returned.preferences)
    /\ (Uploaded /\ BadForm(call.form)) =>
           /\ returned.preferences.favorite_colors
                  = <<"blue", "black", "white">>
           /\ returned.preferences.style_preference = CASUAL
           /\ returned.preferences.budget_range = MID
           /\ returned.preferences.occasion = EVERYDAY
           /\ returned.generator_called
                  <=> (call.success /\ call.body_shape # "oval")
    /\ (Interacted /\ BadTypedOccasion(call.occasion)
            /\ returned.generator_called) =>
           returned.preferences.occasion = EVERYDAY

C15_Witness ==
    /\ Uploaded
    /\ "occasion" \in DOMAIN call.form
    /\ call.form["occasion"] = "brunch"
    /\ "style_preference" \in DOMAIN call.form
    /\ call.form["style_preference"] = "classic"
    /\ "favorite_colors" \in DOMAIN call.form
    /\ returned.generator_called
    /\ returned.preferences.style_preference = CASUAL
    /\ returned.preferences.occasion = EVERYDAY

\* C21: the knowledge base is never mutated after initialisation: after any
\* sequence of calls of the generator, with any body types, occasions and
\* preferences and with calls that take the error path among them,
\* STYLING_RULES equals its initial value.
C21_KnowledgeBaseUnchanged == STYLING_RULES = StylingRulesTable

C21_Witness ==
    /\ calls = MaxCalls
    /\ earlier # None
    /\ earlier.call.fn = "generate_outfit_recommendations"
    /\ "error" \in DOMAIN earlier.returned
    /\ Recommended
    /\ STYLING_RULES = StylingRulesTable

----------------------------------------------------------------------------
(* SpecSharing: calls of the generator by a caller that also modifies, in   *)
(* place, a mutable part of the recommendation it was last given. A part    *)
(* the generator took from the table is the table's own object               *)

\* the mutable parts of a recommendation
MutableParts == {"styling_goals", "colors", "necklines", "avoid"}

\* lines 249 and 288-290: rules["goals"], rules.get("colors", {}),
\* rules["tops"].get("necklines", []), rules["tops"].get("avoid", []): the
\* object of the table when the key is there, a new one when it is not
is_table_object(rules, part) ==
    CASE part = "styling_goals" -> TRUE
      [] part = "colors" -> "colors" \in DOMAIN rules
      [] part = "necklines" -> "necklines" \in DOMAIN rules.tops
      [] part = "avoid" -> "avoid" \in DOMAIN rules.tops

part_of(recommendation, part) ==
    CASE part = "styling_goals" -> recommendation.recommendations.styling_goals
      [] part = "colors" -> recommendation.styling_tips.colors
      [] part = "necklines" -> recommendation.styling_tips.necklines
      [] part = "avoid" -> recommendation.styling_tips.avoid

with_part(recommendation, part, v) ==
    CASE part = "styling_goals" ->
             [recommendation EXCEPT !.recommendations.styling_goals = v]
      [] part = "colors" ->
             [recommendation EXCEPT !.styling_tips.colors = v]
      [] part = "necklines" ->
             [recommendation EXCEPT !.styling_tips.necklines = v]
      [] part = "avoid" ->
             [recommendation EXCEPT !.styling_tips.avoid = v]

table_with_part(table, shape, part, v) ==
    CASE part = "styling_goals" -> [table EXCEPT ![shape].goals = v]
      [] part = "colors" -> [table EXCEPT ![shape].colors = v]
      [] part = "necklines" -> [table EXCEPT ![shape].tops.necklines = v]
      [] part = "avoid" -> [table EXCEPT ![shape].tops.avoid = v]

\* what the caller does to the part: list.append(...) or colors["do"] = ...
caller_change(part, v) ==
    IF part = "colors" THEN [do |-> "changed by caller"] @@ v
    ELSE Append(v, "added by caller")

SharingProfileInputs ==
    {UserProfile(bt, None, None, None, None) : bt \in {RECTANGLE, TRIANGLE}}

SharingPreferencesInputs ==
    {UserPreferences(<<"blue", "green", "red">>, CASUAL, LOW, oc,
                     None, None, None) : oc \in {WORK, DATE, EVERYDAY}}

InitSharing ==
    /\ pc = "caller"
    /\ front_landmarks = None
    /\ ratios = None
    /\ reference = None
    /\ measurements = None
    /\ body_shape = None
    /\ raised = None
    /\ InitEngine

\* a call of the generator; the first one is remembered with its result
SharingGenerate ==
    /\ pc \in {"caller", "generated", "modified"}
    /\ calls < MaxCalls
    /\ \E up \in SharingProfileInputs : \E pr \in SharingPreferencesInputs :
       \E result \in {generate_outfit_recommendations(up, pr)} :
        /\ call' = [fn |-> "generate_outfit_recommendations",
                    user_profile |-> up, preferences |-> pr]
        /\ returned' = result
        /\ STYLING_RULES' = styling_rules_after_generate(up, pr)
        /\ earlier' = IF calls = 0
                      THEN [call |-> call', returned |-> returned']
                      ELSE earlier
        /\ calls' = calls + 1
        /\ pc' = "generated"
        /\ UNCHANGED <<front_landmarks, ratios, reference, measurements,
                       body_shape, raised>>
        /\ UNCHANGED threads

\* the caller modifies a part of the recommendation of the latest call, once
\* per call. Every holder of the same object sees the change: the table,
\* and the remembered result when it holds that object too
CallerModifies ==
    /\ pc = "generated"
    /\ "outfit" \in DOMAIN returned
    /\ \E part \in MutableParts :
       \E v \in {caller_change(part, part_of(returned, part))} :
       \E shape \in {call.user_profile.body_type} :
       \E shared \in {is_table_object(STYLING_RULES[shape], part)} :
        /\ returned' = with_part(returned, part, v)
        /\ STYLING_RULES' =
               IF shared THEN table_with_part(STYLING_RULES, shape, part, v)
               ELSE STYLING_RULES
        /\ earlier' =
               IF calls = 1 THEN [earlier EXCEPT !.returned = returned']
               ELSE IF shared
                       /\ earlier.call.user_profile.body_type = shape
               THEN [earlier EXCEPT
                        !.returned = with_part(earlier.returned, part, v)]
               ELSE earlier
        /\ pc' = "modified"
        /\ UNCHANGED <<front_landmarks, ratios, reference, measurements,
                       body_shape, raised, call, calls>>
        /\ UNCHANGED threads

NextSharing ==
    \/ SharingGenerate
    \/ CallerModifies

SpecSharing == InitSharing /\ [][NextSharing]_vars

\* the recommendation the generator builds for these arguments from the
\* table as it was initialised
FreshRecommendation(user_profile, preferences) ==
    LET rules == StylingRulesTable[user_profile.body_type]
    IN  [body_shape |-> user_profile.body_type.value,
         occasion |-> preferences.occasion.value,
         style_preference |-> preferences.style_preference.value,
         recommendations |->
             [description |-> rules.description,
              styling_goals |-> rules.goals],
         outfit |-> outfit_of(preferences.occasion, rules),
         styling_tips |->
             [colors |-> rules.colors,
              necklines |-> DictGet(rules.tops, "necklines", <<>>),
              avoid |-> DictGet(rules.tops, "avoid", <<>>)]]

\* C22: a recommendation is created fresh per call with no shared ownership:
\* its styling_goals, colors, necklines and avoid are shared neither with
\* the knowledge base nor with another call's result, so a caller modifying
\* a recommendation in place changes neither the knowledge base nor what a
\* later call returns.
C22_NoSharedOwnership ==
    /\ STYLING_RULES = StylingRulesTable
    /\ (pc = "generated" /\ "outfit" \in DOMAIN returned) =>
           returned = FreshRecommendation(call.user_profile,
                                          call.preferences)

----------------------------------------------------------------------------
(* SpecConcurrent: two threads, each making one call of determine_body_shape *)
(* or generate_outfit_recommendations, their steps interleaved in any order. *)
(* The local `rules` of the generator is the table's entry itself, so every  *)
(* step reads the table as it is when the step runs                          *)

Threads == {"t1", "t2"}

idle_thread == [pc |-> "idle", call |-> None, result |-> None]

ThreadProfileInputs ==
    {UserProfile(bt, None, None, None, None) :
        bt \in {RECTANGLE, TRIANGLE, None}}

ThreadPreferencesInputs ==
    {UserPreferences(<<"blue", "green", "red">>, sp, LOW, oc,
                     None, None, None) :
        sp \in {CASUAL, Str("preppy")}, oc \in {WORK, DATE, EVERYDAY}}

InitConcurrent ==
    /\ pc = "threads"
    /\ front_landmarks = None
    /\ ratios = None
    /\ reference = None
    /\ measurements = None
    /\ body_shape = None
    /\ raised = None
    /\ STYLING_RULES = StylingRulesTable
    /\ call = None
    /\ returned = None
    /\ earlier = None
    /\ calls = 0
    /\ threads = [t \in Threads |-> idle_thread]

\* a thread calls generate_outfit_recommendations
StartGenerate ==
    /\ pc = "threads"
    /\ \E t \in Threads :
        /\ threads[t].pc = "idle"
        /\ \E up \in ThreadProfileInputs : \E pr \in ThreadPreferencesInputs :
            threads' = [threads EXCEPT ![t] =
                [pc |-> "lookup",
                 call |-> [fn |-> "generate_outfit_recommendations",
                           user_profile |-> up, preferences |-> pr],
                 result |-> None]]
    /\ UNCHANGED <<scan_vars, STYLING_RULES, call, returned, earlier, calls>>

\* a thread calls determine_body_shape
StartDetermine ==
    /\ pc = "threads"
    /\ \E t \in Threads :
        /\ threads[t].pc = "idle"
        /\ \E m \in HistoryMeasurementInputs :
            threads' = [threads EXCEPT ![t] =
                [pc |-> "ratios",
                 call |-> [fn |-> "determine_body_shape",
                           measurements |-> m],
                 result |-> None]]
    /\ UNCHANGED <<scan_vars, STYLING_RULES, call, returned, earlier, calls>>

\* lines 232-240: the arguments are read, the table is looked up, and the
\* error result is returned when the body type has no entry
GenerateLookup ==
    /\ pc = "threads"
    /\ \E t \in Threads :
        /\ threads[t].pc = "lookup"
        /\ \E up \in {threads[t].call.user_profile} :
           \E pr \in {threads[t].call.preferences} :
           \E rules \in {rules_of(up.body_type)} :
            /\ threads' = [threads EXCEPT ![t] =
                   IF rules = None
                   THEN [@ EXCEPT
                            !.pc = "done",
                            !.result =
                                [error |->
                                    <<"No styling rules found for body shape: ">>
                                        \o py_str(up.body_type)]]
                   ELSE [@ EXCEPT !.pc = "head"]]
            /\ STYLING_RULES' =
                   IF rules = None THEN styling_rules_after_generate(up, pr)
                   ELSE STYLING_RULES
    /\ UNCHANGED <<scan_vars, call, returned, earlier, calls>>

\* lines 243-251: the head of the result is built
GenerateHead ==
    /\ pc = "threads"
    /\ \E t \in Threads :
        /\ threads[t].pc = "head"
        /\ \E up \in {threads[t].call.user_profile} :
           \E pr \in {threads[t].call.preferences} :
            /\ threads' = [threads EXCEPT ![t] =
                   IF ~HasValue(up.body_type) \/ ~HasValue(pr.occasion)
                          \/ ~HasValue(pr.style_preference)
                   THEN [@ EXCEPT !.pc = "done", !.result = AttributeError]
                   ELSE [@ EXCEPT
                            !.pc = "outfit",
                            !.result =
                                outfit_head(up.body_type, pr.occasion,
                                            pr.style_preference,
                                            STYLING_RULES[up.body_type])]]
            /\ STYLING_RULES' =
                   IF ~HasValue(up.body_type) \/ ~HasValue(pr.occasion)
                          \/ ~HasValue(pr.style_preference)
                   THEN styling_rules_after_generate(up, pr)
                   ELSE STYLING_RULES
    /\ UNCHANGED <<scan_vars, call, returned, earlier, calls>>

\* lines 253-284: the outfit of the occasion is added
GenerateOutfit ==
    /\ pc = "threads"
    /\ \E t \in Threads :
        /\ threads[t].pc = "outfit"
        /\ \E up \in {threads[t].call.user_profile} :
           \E pr \in {threads[t].call.preferences} :
            threads' = [threads EXCEPT ![t] =
                [@ EXCEPT
                    !.pc = "tips",
                    !.result =
                        @ @@ [outfit |->
                                 outfit_of(pr.occasion,
                                           STYLING_RULES[up.body_type])]]]
    /\ UNCHANGED <<scan_vars, STYLING_RULES, call, returned, earlier, calls>>

\* lines 286-293: the styling tips are added and the result is returned
GenerateTips ==
    /\ pc = "threads"
    /\ \E t \in Threads :
        /\ threads[t].pc = "tips"
        /\ \E up \in {threads[t].call.user_profile} :
           \E pr \in {threads[t].call.preferences} :
            /\ threads' = [threads EXCEPT ![t] =
                   [@ EXCEPT
                       !.pc = "done",
                       !.result =
                           @ @@ [styling_tips |->
                                    styling_tips_of(
                                        STYLING_RULES[up.body_type])]]]
            /\ STYLING_RULES' = styling_rules_after_generate(up, pr)
    /\ UNCHANGED <<scan_vars, call, returned, earlier, calls>>

\* recommendation_engine.py lines 83-97: the ratios and the percentage
\* differences, locals of the thread; line 94 can raise
DetermineRatios ==
    /\ pc = "threads"
    /\ \E t \in Threads :
        /\ threads[t].pc = "ratios"
        /\ threads' = [threads EXCEPT ![t] =
               IF shoulder_hip_diff_raises(@.call.measurements)
               THEN [@ EXCEPT !.pc = "done", !.result = ZeroDivisionError]
               ELSE [@ EXCEPT !.pc = "rules"]]
    /\ UNCHANGED <<scan_vars, STYLING_RULES, call, returned, earlier, calls>>

\* recommendation_engine.py lines 99-120: the rules in order
DetermineRules ==
    /\ pc = "threads"
    /\ \E t \in Threads :
        /\ threads[t].pc = "rules"
        /\ threads' = [threads EXCEPT ![t] =
               [@ EXCEPT
                   !.pc = "done",
                   !.result =
                       determine_body_shape(threads[t].call.measurements)]]
    /\ UNCHANGED <<scan_vars, STYLING_RULES, call, returned, earlier, calls>>

NextConcurrent ==
    \/ StartGenerate
    \/ StartDetermine
    \/ GenerateLookup
    \/ GenerateHead
    \/ GenerateOutfit
    \/ GenerateTips
    \/ DetermineRatios
    \/ DetermineRules

SpecConcurrent == InitConcurrent /\ [][NextConcurrent]_vars

\* what a call returns when it runs alone on the table as initialised
AloneResult(c) ==
    IF c.fn = "determine_body_shape"
    THEN determine_body_shape(c.measurements)
    ELSE IF c.user_profile.body_type \notin DOMAIN StylingRulesTable
    THEN [error |-> <<"No styling rules found for body shape: ">>
                        \o py_str(c.user_profile.body_type)]
    ELSE IF ~HasValue(c.preferences.style_preference)
    THEN AttributeError
    ELSE FreshRecommendation(c.user_profile, c.preferences)

\* C23: concurrent calls are safe without locking: in every interleaving of
\* the steps of several calls of determine_body_shape and
\* generate_outfit_recommendations, each call returns what it returns when
\* it runs alone, and the knowledge base is unchanged.
C23_ConcurrentCallsAreSafe ==
    /\ STYLING_RULES = StylingRulesTable
    /\ \A t \in Threads :
           threads[t].pc = "done" =>
               threads[t].result = AloneResult(threads[t].call)

C23_Witness ==
    /\ threads["t1"].pc = "done"
    /\ threads["t1"].call.fn = "generate_outfit_recommendations"
    /\ "styling_tips" \in DOMAIN threads["t1"].result
    /\ threads["t2"].pc = "tips"
    /\ threads["t2"].call.user_profile.body_type
           = threads["t1"].call.user_profile.body_type
    /\ threads["t2"].call.preferences.occasion
           # threads["t1"].call.preferences.occasion

----------------------------------------------------------------------------
(* SpecPhotos: one call of analyze_body_shape_from_photos (body_scanner.py  *)
(* lines 207-262) step by step.  `call` holds the arguments and the files   *)
(* the paths name, `returned` the results dict (returned at pc "returned"), *)
(* `calls` the number of invocations of determine_body_shape               *)

\* widths in pixels of the shoulder line and of the hip line of a pose
WidthValues == {0, 19, 20, 21, 22, 24, 25}

\* what varies between poses besides the four landmarks read: the number of
\* landmarks, the place of the other landmarks, the image's shape
\* <<height, width>>, the visibility and a sub-pixel offset (in half pixels)
PoseVariants ==
    {[n |-> 33, other |-> <<0, 0>>, shape |-> <<480, 640>>,
      visibility |-> Frac(9, 10), offset |-> 0],
     [n |-> 25, other |-> <<5, 7>>, shape |-> <<1920, 1080>>,
      visibility |-> Frac(1, 2), offset |-> 1],
     [n |-> 24, other |-> <<5, 7>>, shape |-> <<480, 640>>,
      visibility |-> Frac(9, 10), offset |-> 0]}

\* the detector's landmark of the pixel <<x, y>>, normalised by the shape
NormalisedLandmark(v, point) ==
    [x |-> Frac(2 * point[1] + v.offset, 2 * v.shape[2]),
     y |-> Frac(2 * point[2] + v.offset, 2 * v.shape[1]),
     visibility |-> v.visibility]

\* the shoulder lines of the poses, <<sw, dy>>: sw pixels wide and dy pixels
\* high, of lengths 0, 19, 20, 21, 22, 24, 25 and sqrt(2)
ShoulderLines ==
    {<<sw, 0>> : sw \in WidthValues}
        \cup {<<20, 15>>, <<24, 7>>, <<7, 24>>, <<1, 1>>}

\* an image with a pose whose shoulder line is sw pixels wide and dy pixels
\* high and whose hip line is hw pixels wide
Photo(v, sw, dy, hw) ==
    [shape |-> v.shape,
     pose_landmarks |->
        [landmark |->
            [i \in 0..(v.n - 1) |->
                NormalisedLandmark(v,
                    CASE i = 11 -> <<100, 50>>
                      [] i = 12 -> <<100 + sw, 50 + dy>>
                      [] i = 23 -> <<100, 200>>
                      [] i = 24 -> <<100 + hw, 200>>
                      [] OTHER -> v.other)]]]

\* an image in which no pose is detected
EmptyPhoto == [shape |-> <<480, 640>>, pose_landmarks |-> None]

FrontPhotoInputs ==
    {None, EmptyPhoto}
        \cup {Photo(v, line[1], line[2], hw) :
                 v \in PoseVariants, line \in ShoulderLines,
                 hw \in WidthValues}

SidePhotoInputs ==
    {None,
     Photo([n |-> 33, other |-> <<0, 0>>, shape |-> <<480, 640>>,
            visibility |-> Frac(9, 10), offset |-> 0], 20, 0, 40)}

FilesInputs ==
    {[path \in {"front.jpg", "side.jpg", "back.jpg"} |->
         CASE path = "front.jpg" -> fp
           [] path = "side.jpg" -> sp
           [] OTHER -> None] :
        fp \in FrontPhotoInputs, sp \in SidePhotoInputs}

\* photo_paths.items() in the dict's order
PhotoPathsInputs ==
    {<<>>,
     <<<<FRONT, "front.jpg">>>>,
     <<<<SIDE, "side.jpg">>>>,
     <<<<FRONT, "front.jpg">>, <<SIDE, "side.jpg">>>>,
     <<<<SIDE, "side.jpg">>, <<FRONT, "front.jpg">>>>,
     <<<<SIDE, "side.jpg">>, <<BACK, "back.jpg">>, <<FRONT, "front.jpg">>>>}

InitPhotos ==
    /\ pc = "photos"
    /\ front_landmarks = None
    /\ ratios = None
    /\ reference = None
    /\ measurements = None
    /\ body_shape = None
    /\ raised = None
    /\ InitEngine

\* lines 207-225: the call and its fresh results dict
PhotosCall ==
    /\ pc = "photos"
    /\ \E files \in FilesInputs : \E photo_paths \in PhotoPathsInputs :
       \E ref \in ReferenceInputs :
        /\ call' = [fn |-> "analyze_body_shape_from_photos",
                    files |-> files, photo_paths |-> photo_paths,
                    reference_measurement |-> ref]
        /\ reference' = ref
    /\ returned' = initial_results
    /\ pc' = "analyze_photos"
    /\ UNCHANGED <<front_landmarks, ratios, measurements, body_shape, raised>>
    /\ UNCHANGED <<STYLING_RULES, earlier, calls, threads>>

\* lines 228-235: every photo analysed, in the dict's order
PhotosAnalyzed ==
    /\ pc = "analyze_photos"
    /\ returned' = analyze_photos(returned, call.files, call.photo_paths)
    /\ pc' = "front_check"
    /\ UNCHANGED scan_vars_but_pc
    /\ UNCHANGED <<STYLING_RULES, call, earlier, calls, threads>>

\* lines 237-243: without landmarks of the front view the call returns
PhotosFrontCheck ==
    /\ pc = "front_check"
    /\ IF front_view_missing(returned)
       THEN /\ returned' = front_view_required(returned)
            /\ pc' = "returned"
            /\ UNCHANGED front_landmarks
       ELSE /\ front_landmarks' = returned.landmarks[FRONT]
            /\ pc' = "front"
            /\ UNCHANGED returned
    /\ UNCHANGED <<ratios, reference, measurements, body_shape, raised>>
    /\ UNCHANGED <<STYLING_RULES, call, earlier, calls, threads>>

\* lines 244-251: the ratios of the front view, or the call returns
PhotosRatios ==
    /\ pc = "front"
    /\ \E result \in {calculate_body_ratios(front_landmarks)} :
        /\ ratios' = IF IsException(result) THEN None ELSE result
        /\ raised' = IF IsException(result) THEN result ELSE None
        /\ returned' = IF IsException(result) THEN None
                       ELSE IF ratios_unavailable(result)
                       THEN ratios_failed(returned)
                       ELSE ratios_stored(returned, result, front_landmarks)
        /\ pc' = IF IsException(result) THEN "raised"
                 ELSE IF ratios_unavailable(result) THEN "returned"
                 ELSE "ratios"
    /\ UNCHANGED <<front_landmarks, reference, measurements, body_shape>>
    /\ UNCHANGED <<STYLING_RULES, call, earlier, calls, threads>>

\* lines 253-255: the measurements; an exception leaves the call
PhotosMeasurements ==
    /\ pc = "ratios"
    /\ \E result \in {convert_ratios_to_measurements(ratios, reference)} :
        /\ measurements' = IF IsException(result) THEN None ELSE result
        /\ raised' = IF IsException(result) THEN result ELSE None
        /\ returned' = IF IsException(result) THEN None
                       ELSE [returned EXCEPT !.measurements = result]
        /\ pc' = IF IsException(result) THEN "raised" ELSE "measurements"
    /\ UNCHANGED <<front_landmarks, ratios, reference, body_shape>>
    /\ UNCHANGED <<STYLING_RULES, call, earlier, calls, threads>>

\* lines 257-262: the classifier is invoked and the results are returned
PhotosShape ==
    /\ pc = "measurements"
    /\ calls' = calls + 1
    /\ \E result \in {determine_body_shape(measurements)} :
        /\ body_shape' = IF IsException(result) THEN None ELSE result
        /\ raised' = IF IsException(result) THEN result ELSE None
        /\ returned' = IF IsException(result) THEN None
                       ELSE [returned EXCEPT !.body_shape = result,
                                             !.success = TRUE]
        /\ pc' = IF IsException(result) THEN "raised" ELSE "returned"
    /\ UNCHANGED <<front_landmarks, ratios, reference, measurements>>
    /\ UNCHANGED <<STYLING_RULES, call, earlier, threads>>

NextPhotos ==
    \/ PhotosCall
    \/ PhotosAnalyzed
    \/ PhotosFrontCheck
    \/ PhotosRatios
    \/ PhotosMeasurements
    \/ PhotosShape

SpecPhotos == InitPhotos /\ [][NextPhotos]_vars

\* the front view was in photo_paths and its photo showed a pose
FrontViewAnalyzed ==
    \E i \in DOMAIN call.photo_paths :
        /\ call.photo_paths[i][1] = FRONT
        /\ analyze_photo(call.files, call.photo_paths[i][2], FRONT) # None

PhotosReturned == pc = "returned"

\* C24: in analyze_body_shape_from_photos the classifier is invoked only
\* after ratios were obtained from the FRONT view; when the FRONT view is
\* missing or calculate_body_ratios is unavailable, determine_body_shape is
\* never invoked and the result has success False, no body shape, no
\* measurements and at least one error; success is True only in results
\* whose ratios, measurements and body shape are all set.
C24_ClassifiedOnlyAfterFrontRatios ==
    /\ calls > 0 =>
           /\ front_landmarks # None
           /\ front_landmarks.angle = FRONT
           /\ ratios # None
           /\ ratios = calculate_body_ratios(front_landmarks)
    /\ (PhotosReturned
            /\ (~FrontViewAnalyzed \/ front_landmarks = None
                   \/ calculate_body_ratios(front_landmarks) = None)) =>
           /\ calls = 0
           /\ returned.success = FALSE
           /\ returned.body_shape = None
           /\ returned.measurements = None
           /\ Len(returned.errors) >= 1
    /\ (pc \notin {"photos", "raised"} /\ returned.success) =>
           /\ returned.ratios # None
           /\ returned.measurements # None
           /\ returned.body_shape \in BodyType

C24_Witness ==
    /\ PhotosReturned
    /\ returned.success
    /\ calls = 1
    /\ Len(returned.errors) = 1
    /\ returned.body_shape = TRIANGLE

\* a call that returned without a front view, after another view was analysed
C24_WitnessNoFront ==
    /\ PhotosReturned
    /\ ~FrontViewAnalyzed
    /\ SIDE \in DOMAIN returned.landmarks
    /\ calls = 0

----------------------------------------------------------------------------
(* C25: what the ratios and the analysis depend on *)

\* other values for everything calculate_body_ratios is given besides the
\* landmarks 11, 12, 23 and 24
Perturbations ==
    {[n |-> 25, other |-> <<0, 0>>, angle |-> FRONT, image_width |-> 640,
      image_height |-> 480, confidence |-> Rat(1)],
     [n |-> 33, other |-> <<9, 9>>, angle |-> SIDE, image_width |-> 1080,
      image_height |-> 1920, confidence |-> Frac(1, 10)],
     [n |-> 40, other |-> <<300, 2>>, angle |-> BACK, image_width |-> 1,
      image_height |-> 1, confidence |-> Rat(0)]}

\* the landmarks 11, 12, 23 and 24 of `lm`, everything else taken from p
Perturbed(lm, p) ==
    BodyLandmarks(p.angle,
                  [i \in 0..(p.n - 1) |->
                      IF i \in {11, 12, 23, 24} THEN lm.landmarks[i]
                      ELSE p.other],
                  p.image_width, p.image_height, p.confidence)

IsFront(item) == item[1] = FRONT

\* what the same call returns when it is given the front view alone
FrontOnly ==
    analyze_body_shape_from_photos(call.files,
                                   SelectSeq(call.photo_paths, IsFront),
                                   call.reference_measurement)

\* the views of the call that analyze_photo fails on
FailedViews ==
    {i \in DOMAIN call.photo_paths :
        analyze_photo(call.files, call.photo_paths[i][2],
                      call.photo_paths[i][1]) = None}

\* C25: the body ratios depend only on the landmarks 11, 12, 23 and 24 of a
\* pose of at least 25 landmarks, whatever the other points, the image's
\* width and height, the confidence and the angle are; the ratios, the
\* measurements and the body shape of analyze_body_shape_from_photos depend
\* only on the FRONT view, and a failed view other than the front view adds
\* an error without preventing success.
C25_DependsOnFourLandmarksOfFront ==
    /\ (pc = "ratios" /\ LandmarkCount(front_landmarks.landmarks) >= 25) =>
           \A p \in Perturbations :
               calculate_body_ratios(Perturbed(front_landmarks, p)) = ratios
    /\ PhotosReturned =>
           /\ \A alone \in {FrontOnly} :
                  /\ alone.success = returned.success
                  /\ alone.ratios = returned.ratios
                  /\ alone.measurements = returned.measurements
                  /\ alone.body_shape = returned.body_shape
           /\ Len(returned.errors) >= Cardinality(FailedViews)
    /\ pc = "raised" => FrontOnly = raised

C25_Witness ==
    /\ PhotosReturned
    /\ returned.success
    /\ returned.body_shape = HOURGLASS
    /\ Len(call.photo_paths) = 3
    /\ Len(returned.errors) = 2
    /\ LandmarkCount(front_landmarks.landmarks) = 25

----------------------------------------------------------------------------
(* C26: the triangle rule, under SpecClassifier *)

\* hips/shoulders - 1 >= 0.05
HipsFivePercentBigger(m) ==
    Ge(Sub(Div(m.hips, m.shoulders), Rat(1)), Frac(5, 100))

\* a rule before the triangle rule matches m
EarlierRuleMatches(m) ==
    \/ Rule1(Inches(m.shoulders), Inches(m.bust), Inches(m.waist),
             Inches(m.hips))
    \/ Rule2(Inches(m.shoulders), Inches(m.bust), Inches(m.waist),
             Inches(m.hips))

\* C26 as stated: determine_body_shape returns TRIANGLE for every positive
\* quadruple whose hips are at least 5% bigger than its shoulders.
C26_TriangleWhenHipsFivePercentBigger ==
    (Classified /\ Positive(measurements)
         /\ HipsFivePercentBigger(measurements))
        => body_shape = TRIANGLE

\* C26 amended: on a positive quadruple whose hips are at least 5% bigger
\* than its shoulders determine_body_shape returns TRIANGLE unless the
\* rectangle rule or the hourglass rule matches first, and then it returns
\* that rule's shape; it returns TRIANGLE whenever the hips exceed the
\* shoulders by more than 5% of the hips, where neither earlier rule matches.
C26_TriangleUnlessEarlierRule ==
    (Classified /\ Positive(measurements)
         /\ HipsFivePercentBigger(measurements))
        => /\ body_shape = TRIANGLE <=> ~EarlierRuleMatches(measurements)
           /\ EarlierRuleMatches(measurements) =>
                  body_shape \in {RECTANGLE, HOURGLASS}
           /\ Gt(Sub(measurements.hips, measurements.shoulders),
                 Mul(Frac(5, 100), measurements.hips)) =>
                  body_shape = TRIANGLE

\* hips 5.26% bigger than the shoulders and within 5% of them measured by the
\* hips: TRIANGLE, because bust and waist keep rules 1 and 2 from matching
C26_Witness ==
    /\ Classified
    /\ measurements = Quadruple(38, 26, 30, 40)
    /\ body_shape = TRIANGLE

----------------------------------------------------------------------------
(* C27: the knowledge base covers the classifier's range, under SpecGenerator *)

\* the keys generate_outfit_recommendations reads of an entry
EntryComplete(rules) ==
    /\ {"description", "goals", "tops", "bottoms", "colors"}
           \subseteq DOMAIN rules
    /\ "best" \in DOMAIN rules.tops

\* C27: for every BodyType member and every Occasion member
\* generate_outfit_recommendations returns a recommendation with an outfit
\* and styling tips, never the error result and never a missing-key fault:
\* every body type has an entry with description, goals, tops.best, bottoms
\* and colors.
C27_KnowledgeBaseCoversEveryShape ==
    /\ \A bt \in BodyType :
           /\ bt \in DOMAIN STYLING_RULES
           /\ EntryComplete(STYLING_RULES[bt])
    /\ (Generated /\ ProfileBodyType \in BodyType
            /\ PreferredOccasion \in Occasion
            /\ call.preferences.style_preference \in StylePreference) =>
           /\ ~IsException(returned)
           /\ "error" \notin DOMAIN returned
           /\ "outfit" \in DOMAIN returned
           /\ "styling_tips" \in DOMAIN returned
           /\ DOMAIN returned.styling_tips = {"colors", "necklines", "avoid"}

C27_Witness ==
    /\ Generated
    /\ ProfileBodyType = INVERTED_TRIANGLE
    /\ PreferredOccasion = WORKOUT
    /\ call.preferences.style_preference \in StylePreference
    /\ "outfit" \in DOMAIN returned
    /\ "styling_tips" \in DOMAIN returned

----------------------------------------------------------------------------
(* C28: the pipeline from a pose to a body shape, under SpecPhotos.  S and H *)
(* are the widths in pixels of the shoulder line and of the hip line        *)

ShoulderWidth == ratios.shoulder_width_pixels

HipWidth == ratios.hip_width_pixels

\* a call that went through the whole pipeline on positive widths
PipelineDone ==
    /\ pc \in {"returned", "raised"}
    /\ ratios # None
    /\ Gt(ShoulderWidth, Rat(0))
    /\ Gt(HipWidth, Rat(0))

\* S <= H and (H - S)/H <= 5%
HourglassWindow ==
    /\ Le(ShoulderWidth, HipWidth)
    /\ Le(Div(Sub(HipWidth, ShoulderWidth), HipWidth), Frac(5, 100))

\* the shape as a function of the quotient q = S/H alone
ShapeOfQuotient(q) ==
    IF Le(q, Rat(1)) /\ Le(Sub(Rat(1), q), Frac(5, 100)) THEN HOURGLASS
    ELSE IF Ge(Sub(Inv(q), Rat(1)), Frac(5, 100)) THEN TRIANGLE
    ELSE IF Gt(q, Rat(1)) /\ Ge(Sub(q, Rat(1)), Frac(5, 100))
    THEN INVERTED_TRIANGLE
    ELSE RECTANGLE

\* the pose with every coordinate multiplied by k: the same quotient S/H
ScaledPose(lm, k) ==
    [lm EXCEPT !.landmarks =
        [i \in DOMAIN @ |-> <<k * @[i][1], k * @[i][2]>>]]

\* calculate_body_ratios -> convert_ratios_to_measurements ->
\* determine_body_shape on a pose
PipelineShape(lm, reference_measurement) ==
    determine_body_shape(
        convert_ratios_to_measurements(calculate_body_ratios(lm),
                                       reference_measurement))

\* C28: in the pipeline calculate_body_ratios -> convert_ratios_to_measurements
\* -> determine_body_shape, in exact arithmetic and on positive widths S and
\* H, the waist reduction from the shoulders is exactly 25%, so rule 1 never
\* matches; the result is HOURGLASS exactly when S <= H and (H - S)/H <= 5%;
\* RECTANGLE comes only from the default (S > H, neither rule 3 nor rule 4
\* matching); and the outcome depends only on the quotient S/H.
C28_PipelineShapeByWidthQuotient ==
    PipelineDone =>
        /\ raised = None
        /\ returned.success
        /\ waist_reduction_shoulders(measurements) = Rat(25)
        /\ ~rectangle_rule(measurements)
        /\ body_shape = HOURGLASS <=> HourglassWindow
        /\ body_shape = RECTANGLE =>
               /\ Gt(ShoulderWidth, HipWidth)
               /\ ~hourglass_rule(measurements)
               /\ ~triangle_rule(measurements)
               /\ ~inverted_triangle_rule(measurements)
        /\ body_shape = ShapeOfQuotient(Div(ShoulderWidth, HipWidth))
        /\ \A k \in {2, 3} :
               PipelineShape(ScaledPose(front_landmarks, k), reference)
                   = body_shape

\* shoulders wider than the hips by less than 5%: the default RECTANGLE
C28_Witness ==
    /\ PipelineDone
    /\ ShoulderWidth = Rat(25)
    /\ HipWidth = Rat(24)
    /\ front_landmarks.landmarks[12] = <<124, 57>>
    /\ body_shape = RECTANGLE
    /\ returned.success

----------------------------------------------------------------------------
(* SpecScale: the calls of SpecClassifier and the calls of SpecPhotos *)

InitScale == InitClassifier \/ InitPhotos

NextScale ==
    \/ Classify
    \/ ClassifyAgain
    \/ PhotosCall
    \/ PhotosAnalyzed
    \/ PhotosFrontCheck
    \/ PhotosRatios
    \/ PhotosMeasurements
    \/ PhotosShape

SpecScale == InitScale /\ [][NextScale]_vars

\* positive factors: smaller than 1, whole, and a fraction above 1
ScaleFactors == {Frac(1, 2), Rat(3), Frac(7, 5)}

\* k*m
Scale(k, m) ==
    BodyMeasurements(Mul(k, m.shoulders), Mul(k, m.bust), Mul(k, m.waist),
                     Mul(k, m.hips))

\* positive reference measurements other than those the calls pass
OtherReferences == {Frac(1, 2), Rat(1), Rat(36), Rat(100)}

====
